---- MODULE Spec2Model ----
(***************************************************************************)
(* Model of the data-pipeline repository.                                  *)
(*                                                                         *)
(*   - Spec / FairSpec: the per-category pagination loops of               *)
(*     UnifiedFetcher (fetch_get_paginated, fetch_post_paginated), page    *)
(*     by page.                                                            *)
(*   - SpecFetch: UnifiedFetcher::fetch_all_categories, category by        *)
(*     category; a category fetch is one step, computed by running the     *)
(*     same loop body over a scripted sequence of page outcomes.           *)
(*   - SpecFlatten: JsonFlattener applied to batches of raw records.       *)
(*   - SpecRun: main's loop over the sources and the stages of             *)
(*     process_json_source, process_html_source and                        *)
(*     process_source_from_storage.  Record lists are held by their        *)
(*     origin and length; whether a fallible call (file, network, storage, *)
(*     table library) succeeds is the environment's choice.                *)
(*                                                                         *)
(* The remote source is the environment.  A category's catalog is a        *)
(* contiguous run of non-empty pages followed by empty pages; its length   *)
(* is decided lazily, response by response.  Requests fail (transport      *)
(* error or undecodable body) during outages; an outage fails one request  *)
(* or several in a row, and a failed request targets a page that either    *)
(* held items or lay past the end of the catalog.                          *)
(***************************************************************************)
EXTENDS Integers, Sequences, FiniteSets, TLC

\* ---------------------------------------------------------------- bounds
\* outages (runs of consecutive failed requests) during one category fetch
MaxOutages == 1

\* raw records in a mixed batch
MaxBatch == 3
\* records a small source delivers
MaxRecords == 2
\* categories of one source
MaxCategories == 2
\* scripted page outcomes of one category before its source settles
MaxScript == 2

\* categories of an HTML source
MaxHtmlCategories == 2
\* largest max_pages_per_category of an HTML config
MaxHtmlPages == 2

\* ------------------------------------------------------ program constants
max_consecutive_empty == 2
\* scrape_page: fetch_page_with_retry(url, 3)
max_retries == 3
max_pages == 50

Methods == {"GET", "POST"}

VARIABLES
    method,                   \* config.request.method
    page,                     \* page index of the running pagination loop
    consecutive_empty_pages,  \* consecutive-empty counter of the loop
    all_products,             \* items accumulated by the loop
    pc,                       \* "loop" | "sleep" | "done"
    requests,                 \* page requests issued by this category fetch
    sleeps,                   \* 500 ms delays completed by this category fetch
    lastOutcome,              \* outcome of the latest page request
    sinceNonEmpty,            \* page attempts since the last non-empty page
    failures,                 \* requests of this fetch that failed
    outages,                  \* outages begun during this fetch
    consecFail,               \* two failed requests in a row have occurred
    lastRequested,            \* page index of the latest page request
    returned,                 \* "none" | "Ok" | "Err": how the fetch returned
    held,                     \* catalog pages (holding items) requested so far
    exhausted,                \* a request went past the end of the catalog
    \* ---- fetch_all_categories
    pagination,               \* config.pagination.type
    categories,               \* number of categories the config yields
    cat,                      \* position of the next category in iteration order
    all_data,                 \* records accumulated over the categories
    fpc,                      \* "idle" | "running" | "returned"
    fetchResult,              \* value returned by fetch_all_categories
    net_requests,             \* network requests issued by fetch_all_categories
    catLog,                   \* per category: did its fetch return Ok
    catResults,               \* per category: what its fetch returned
    \* ---- JsonFlattener
    json_data,                \* the raw records handed to the flattener
    df,                       \* the DataFrame it returned
    successful_count,         \* records extracted
    failed_count,             \* records whose extraction returned Err
    flpc,                     \* "idle" | "input" | "flat" | "batched" |
                              \* "classified" | "normalized" | "renormalized"
    batch_len,                \* chunk size handed to the batched flattening
    batched,                  \* what flatten_to_dataframe_batched returned
    classified,               \* df after map_to_canonical_schema
    normalized,               \* outcome of normalize_dataframe on classified
    renormalized,             \* outcome of a second normalize_dataframe
    \* ---- main and the process_* functions
    from_storage,             \* the --from-storage flag
    sources_to_process,       \* the selected sources, in list order
    src,                      \* position of the loop in sources_to_process
    rpc,                      \* "idle" | "boot" | "loop" | "source" | "returned" | "exit"
    stage,                    \* next stage of the running process_* call
    products_count,           \* records fetched by the call, -1 before the fetch
    raw_total,                \* records the call is about to flatten
    batch_size,               \* chunk size chosen by the call
    flatten_path,             \* "none" | "whole" | "batched": how it flattened
    puts,                     \* blobs the call has written
    stagesRun,                \* stages the call has completed
    ret,                      \* value the call returned
    successful_sources,       \* main's success counter
    total_products,           \* main's product total
    okReturns,                \* process_* calls that returned Ok
    attempted,                \* sources the loop has reached
    mainResult,               \* "none" | "Ok" | "Err"
    \* ---- classify_field
    field_name,               \* the column name handed to classify_field
    sample_values,            \* the sample values handed to it
    classification,           \* what it returned
    cpc,                      \* "idle" | "call" | "done"
    \* ---- the loop body of normalize_name_and_extract_units
    name_in,                  \* the product name it is given
    extracted,                \* the unit and the cleaned name it produced
    upc,                      \* "idle" | "call" | "done"
    \* ---- HtmlFetcher
    html_categories,          \* number of categories of the HTML config
    max_pages_per_category,   \* config.scraping.max_pages_per_category
    hcat,                     \* position of fetch_all_categories in them
    html_all_products,        \* all_products of fetch_all_categories
    category_delays,          \* delays between categories completed
    hpage,                    \* `page` of scrape_category's loop
    scraped,                  \* all_products of scrape_category
    page_log,                 \* per page scraped: what scrape_page gave
    attempts,                 \* `attempts` of fetch_page_with_retry
    fetches,                  \* fetch_page_smart calls made for this page
    backoffs,                 \* backoff delays completed for this page
    error_of,                 \* attempt whose error the retry returned, or 0
    page_fetch,               \* "none" | "Ok" | "Err": how the retry returned
    scrape_result,            \* what scrape_category returned
    html_result,              \* what fetch_all_categories returned
    hpc                       \* position of the HTML fetch

pageVars == <<page, consecutive_empty_pages, all_products, pc, requests,
              sleeps, lastOutcome, sinceNonEmpty, failures, outages,
              consecFail, lastRequested, returned, held, exhausted>>

fetchVars == <<pagination, categories, cat, all_data, fpc, fetchResult,
               net_requests, catLog, catResults>>

flatVars == <<json_data, df, successful_count, failed_count, flpc,
              batch_len, batched, classified, normalized, renormalized>>

runVars == <<from_storage, sources_to_process, src, rpc, stage,
             products_count, raw_total, batch_size, flatten_path, puts,
             stagesRun, ret,
             successful_sources, total_products, okReturns, attempted,
             mainResult>>

classVars == <<field_name, sample_values, classification, cpc>>

unitVars == <<name_in, extracted, upc>>

htmlVars == <<html_categories, max_pages_per_category, hcat,
              html_all_products, category_delays, hpage, scraped, page_log,
              attempts, fetches, backoffs, error_of, page_fetch,
              scrape_result, html_result, hpc>>

vars == <<method, pageVars, fetchVars, flatVars, runVars, classVars,
          unitVars, htmlVars>>

\* everything but the pagination loop / fetch_all_categories / the
\* flattener / main
outsidePage ==
    <<fetchVars, flatVars, runVars, classVars, unitVars, htmlVars>>
outsideFetch ==
    <<pageVars, flatVars, runVars, classVars, unitVars, htmlVars>>
outsideFlat ==
    <<method, pageVars, fetchVars, runVars, classVars, unitVars, htmlVars>>
outsideRun ==
    <<pageVars, fetchVars, flatVars, classVars, unitVars, htmlVars>>
outsideUnits ==
    <<method, pageVars, fetchVars, flatVars, runVars, classVars, htmlVars>>
outsideHtml ==
    <<method, pageVars, fetchVars, flatVars, runVars, classVars, unitVars>>
outsideClass ==
    <<method, pageVars, fetchVars, flatVars, runVars, unitVars, htmlVars>>

\* ------------------------------------------------------------ page loop

\* first page index: `let mut page = 1` (GET), `let mut page = 0` (POST)
StartPage(m) == IF m = "GET" THEN 1 ELSE 0

\* the safety check at the top of the loop
PageLimitReached_Late(m, p) ==
    IF m = "GET" THEN p > max_pages + 1 ELSE p >= max_pages
PageLimitReached_Early(m, p) == p >= max_pages
PageLimitReached(m, p) == IF m = "GET" THEN p > max_pages ELSE p >= max_pages

\* the items a non-empty page p delivers (one item, tagged by its page)
PageItems(p) == <<p>>

\* all_products.extend(products)
Extend_Prepend(acc, products) == products \o acc
Extend(acc, products) == acc \o products

\* consecutive_empty_pages >= max_consecutive_empty
TooManyEmpty_Strict(n) == n > max_consecutive_empty
TooManyEmpty(n) == n >= max_consecutive_empty

\* the counter after a page that yielded nothing / that yielded items
CountEmpty(n) == n + 1
ResetEmpty_Keep(n) == n
ResetEmpty(n) == 0

\* shapes of a decoded response body
BodyShapes == {"array", "data", "products", "items", "other"}

\* extract_products without a configured data_path: a body that is an array,
\* or holds data[].l2_products[], products[] or items[], yields its items;
\* any other body yields the empty list.  It never returns Err.
ExtractProducts_ErrOnUnknown(shape, items) ==
    [ok |-> shape /= "other", products |-> IF shape = "other" THEN <<>> ELSE items]
ExtractProducts(shape, items) ==
    [ok |-> TRUE, products |-> IF shape = "other" THEN <<>> ELSE items]

\* build_post_request_body: always Ok
BuildPostRequestBody(slug, p) == [ok |-> TRUE, page |-> p]

Failed(o) == o \in {"transport", "decode"}

\* The loop's locals: st = [page, empty, products, stop, ok].
LoopStart(m) ==
    [page |-> StartPage(m), empty |-> 0, products |-> <<>>,
     stop |-> FALSE, ok |-> TRUE]

\* the Err arm of a request or of response.json(): count, stop at the
\* threshold, otherwise advance the page (and sleep)
AfterFailure(st) ==
    LET n == CountEmpty(st.empty) IN
    IF TooManyEmpty(n)
      THEN [st EXCEPT !.empty = n, !.stop = TRUE]
      ELSE [st EXCEPT !.empty = n, !.page = st.page + 1]

\* a decoded body: `self.extract_products(&data)?`, then the empty /
\* non-empty arms
AfterBody(st, shape, items) ==
    LET ex == ExtractProducts(shape, items) IN
    IF ~ex.ok
      THEN [st EXCEPT !.stop = TRUE, !.ok = FALSE]
    ELSE IF ex.products = <<>>
      THEN LET n == CountEmpty(st.empty) IN
           IF TooManyEmpty(n)
             THEN [st EXCEPT !.empty = n, !.stop = TRUE]
             ELSE [st EXCEPT !.empty = n, !.page = st.page + 1]
    ELSE [st EXCEPT !.empty = ResetEmpty(st.empty),
                    !.products = Extend(st.products, ex.products),
                    !.page = st.page + 1]

\* the loop's locals as held in the variables
Cur ==
    [page |-> page, empty |-> consecutive_empty_pages,
     products |-> all_products, stop |-> FALSE, ok |-> TRUE]

\* write the locals back; a stopped loop returns, a running one sleeps
Store_NoSleep(st) ==
    /\ page' = st.page
    /\ consecutive_empty_pages' = st.empty
    /\ all_products' = st.products
    /\ pc' = IF st.stop THEN "done" ELSE "loop"
    /\ returned' = IF ~st.stop THEN "none" ELSE IF st.ok THEN "Ok" ELSE "Err"
Store(st) ==
    /\ page' = st.page
    /\ consecutive_empty_pages' = st.empty
    /\ all_products' = st.products
    /\ pc' = IF st.stop THEN "done" ELSE "sleep"
    /\ returned' = IF ~st.stop THEN "none" ELSE IF st.ok THEN "Ok" ELSE "Err"

\* a page request can be issued: the loop is at its top, below the limit,
\* and (POST) the request body was built
CanRequest ==
    /\ pc = "loop"
    /\ ~PageLimitReached(method, page)
    /\ method = "POST" => BuildPostRequestBody("slug", page).ok

\* the environment's bookkeeping for a request that does not deliver items:
\* hadItems says whether the page requested held items in the catalog
EnvMiss(hadItems) ==
    /\ hadItems => ~exhausted
    /\ held' = IF hadItems THEN held + 1 ELSE held
    /\ exhausted' = (exhausted \/ ~hadItems)

\* a request that fails: fetch_with_get / fetch_with_post returns Err
\* (kind = "transport") or response.json() returns Err (kind = "decode")
PageFailure(kind, hadItems) ==
    /\ CanRequest
    /\ Failed(lastOutcome) \/ outages < MaxOutages
    /\ outages' = IF Failed(lastOutcome) THEN outages ELSE outages + 1
    /\ EnvMiss(hadItems)
    /\ requests' = requests + 1
    /\ lastRequested' = page
    /\ lastOutcome' = kind
    /\ sinceNonEmpty' = sinceNonEmpty + 1
    /\ failures' = failures + 1
    /\ consecFail' = (consecFail \/ Failed(lastOutcome))
    /\ Store(AfterFailure(Cur))
    /\ UNCHANGED <<method, sleeps, outsidePage>>

TransportFailure == \E hadItems \in BOOLEAN : PageFailure("transport", hadItems)

DecodeFailure == \E hadItems \in BOOLEAN : PageFailure("decode", hadItems)

\* a decoded response whose body holds no items
EmptyPage ==
    /\ CanRequest
    /\ EnvMiss(FALSE)
    /\ requests' = requests + 1
    /\ lastRequested' = page
    /\ lastOutcome' = "empty"
    /\ sinceNonEmpty' = sinceNonEmpty + 1
    /\ \E shape \in BodyShapes : Store(AfterBody(Cur, shape, <<>>))
    /\ UNCHANGED <<method, sleeps, failures, outages, consecFail, outsidePage>>

\* a decoded response whose body holds the items of the page
NonEmptyPage ==
    /\ CanRequest
    /\ ~exhausted
    /\ held' = held + 1
    /\ requests' = requests + 1
    /\ lastRequested' = page
    /\ lastOutcome' = "items"
    /\ sinceNonEmpty' = 0
    /\ \E shape \in BodyShapes \ {"other"} :
           Store(AfterBody(Cur, shape, PageItems(page)))
    /\ UNCHANGED <<method, sleeps, failures, outages, consecFail, exhausted,
                   outsidePage>>

\* `if page > max_pages { break }` / `if page >= max_pages { break }`
PageLimitStop ==
    /\ pc = "loop"
    /\ PageLimitReached(method, page)
    /\ pc' = "done"
    /\ returned' = "Ok"
    /\ UNCHANGED <<method, page, consecutive_empty_pages, all_products,
                   requests, sleeps, lastOutcome, sinceNonEmpty, failures,
                   outages, consecFail, lastRequested, held, exhausted,
                   outsidePage>>

\* sleep(Duration::from_millis(500)).await, then back to the top of the loop
Sleep ==
    /\ pc = "sleep"
    /\ sleeps' = sleeps + 1
    /\ pc' = "loop"
    /\ UNCHANGED <<method, page, consecutive_empty_pages, all_products,
                   requests, lastOutcome, sinceNonEmpty, failures, outages,
                   consecFail, lastRequested, returned, held, exhausted,
                   outsidePage>>

\* no fetch_all_categories call is being traced
IdleFetch ==
    /\ pagination = "page"
    /\ categories = 0
    /\ cat = 0
    /\ all_data = <<>>
    /\ fpc = "idle"
    /\ fetchResult = "none"
    /\ net_requests = 0
    /\ catLog = <<>>
    /\ catResults = <<>>

\* no flattener call is being traced
IdleFlat ==
    /\ json_data = <<>>
    /\ df = <<>>
    /\ successful_count = 0
    /\ failed_count = 0
    /\ flpc = "idle"
    /\ batch_len = 0
    /\ batched = "none"
    /\ classified = <<>>
    /\ normalized = [status |-> "none", frame |-> <<>>]
    /\ renormalized = [status |-> "none", frame |-> <<>>]

\* no call of classify_field is being traced
IdleClass ==
    /\ field_name = ""
    /\ sample_values = <<>>
    /\ classification = ""
    /\ cpc = "idle"

NothingExtracted == [unit_found |-> "", cleaned_name |-> ""]

IdleUnits ==
    /\ name_in = ""
    /\ extracted = NothingExtracted
    /\ upc = "idle"

NotReturned == [ok |-> FALSE, products |-> <<>>, returned |-> FALSE]

IdleHtml ==
    /\ html_categories = 0
    /\ max_pages_per_category = 0
    /\ hcat = 0
    /\ html_all_products = <<>>
    /\ category_delays = 0
    /\ hpage = 0
    /\ scraped = <<>>
    /\ page_log = <<>>
    /\ attempts = 0
    /\ fetches = 0
    /\ backoffs = 0
    /\ error_of = 0
    /\ page_fetch = "none"
    /\ scrape_result = NotReturned
    /\ html_result = NotReturned
    /\ hpc = "idle"

\* no run of main is being traced
IdleRun ==
    /\ from_storage = FALSE
    /\ sources_to_process = <<>>
    /\ src = 0
    /\ rpc = "idle"
    /\ stage = "none"
    /\ products_count = -1
    /\ raw_total = -1
    /\ batch_size = -1
    /\ flatten_path = "none"
    /\ puts = <<>>
    /\ stagesRun = <<>>
    /\ ret = "none"
    /\ successful_sources = 0
    /\ total_products = 0
    /\ okReturns = 0
    /\ attempted = <<>>
    /\ mainResult = "none"

\* the state right after the locals of fetch_get_paginated /
\* fetch_post_paginated are initialised
InitPage ==
    /\ method \in Methods
    /\ IdleFetch
    /\ IdleFlat
    /\ IdleRun
    /\ IdleUnits
    /\ IdleHtml
    /\ IdleClass
    /\ page = LoopStart(method).page
    /\ consecutive_empty_pages = LoopStart(method).empty
    /\ all_products = LoopStart(method).products
    /\ pc = "loop"
    /\ requests = 0
    /\ sleeps = 0
    /\ lastOutcome = "none"
    /\ sinceNonEmpty = 0
    /\ failures = 0
    /\ outages = 0
    /\ consecFail = FALSE
    /\ lastRequested = -1
    /\ returned = "none"
    /\ held = 0
    /\ exhausted = FALSE

NextPage ==
    \/ TransportFailure
    \/ DecodeFailure
    \/ EmptyPage
    \/ NonEmptyPage
    \/ PageLimitStop
    \/ Sleep

Spec == InitPage /\ [][NextPage]_vars

\* the loop is straight-line sequential code: it always takes its next step
FairSpec == Spec /\ WF_vars(NextPage)

\* ------------------------------------------------- fetch_all_categories

\* outcomes of one page request as the source scripts them
Outcomes == {"items", "empty", "transport", "decode"}

RECURSIVE SeqsUpTo(_, _)
SeqsUpTo(S, n) ==
    IF n = 0 THEN {<<>>}
    ELSE LET shorter == SeqsUpTo(S, n - 1) IN
         shorter \cup {Append(q, x) : q \in {r \in shorter : Len(r) = n - 1},
                                      x \in S}

\* a category's source: the outcomes of its first requests, then the outcome
\* of every later one
Scripts == [head : SeqsUpTo(Outcomes, MaxScript), tail : {"items", "empty"}]

OutcomeAt(script, k) ==
    IF k <= Len(script.head) THEN script.head[k] ELSE script.tail

\* one iteration of the pagination loop on outcome o
AfterOutcome(st, o) ==
    IF Failed(o) THEN AfterFailure(st)
    ELSE IF o = "items" THEN AfterBody(st, "products", PageItems(st.page))
    ELSE AfterBody(st, "other", <<>>)

\* fetch_get_paginated / fetch_post_paginated run to their return:
\* n requests have been issued so far
RECURSIVE RunLoop(_, _, _, _)
RunLoop(m, st, script, n) ==
    IF st.stop \/ PageLimitReached(m, st.page)
      THEN [ok |-> st.ok, products |-> st.products, requests |-> n]
    ELSE IF m = "POST" /\ ~BuildPostRequestBody("slug", st.page).ok
      THEN [ok |-> FALSE, products |-> st.products, requests |-> n]
    ELSE RunLoop(m, AfterOutcome(st, OutcomeAt(script, n + 1)), script, n + 1)

FetchPaginated(m, script) == RunLoop(m, LoopStart(m), script, 0)

\* the items of a single-shot response
SingleItems == PageItems(0)

\* fetch_get_single: one request; a transport or decode failure is an Err
FetchGetSingle(o) ==
    IF Failed(o)
      THEN [ok |-> FALSE, products |-> <<>>, requests |-> 1]
      ELSE LET ex == IF o = "items"
                       THEN ExtractProducts("products", SingleItems)
                       ELSE ExtractProducts("other", <<>>)
           IN [ok |-> ex.ok, products |-> ex.products, requests |-> 1]

\* records of category c: the items of its pages
Tag(c, products) == [i \in 1..Len(products) |-> <<c, products[i]>>]

\* the match on a category's result: Ok extends all_data, Err is logged and
\* the loop continues; acc = [ok, data]
AfterCategory_Propagate(acc, c, res) ==
    IF res.ok THEN [acc EXCEPT !.data = Extend(acc.data, Tag(c, res.products))]
    ELSE [acc EXCEPT !.ok = FALSE]
AfterCategory(acc, c, res) ==
    IF res.ok THEN [acc EXCEPT !.data = Extend(acc.data, Tag(c, res.products))]
    ELSE acc

\* `match self.config.request.method.as_str()`: the arms "GET" and "POST"
Supported(m) == m \in Methods

\* the fetch of the category at position cat has returned res
CategoryDone(res) ==
    LET acc == AfterCategory([ok |-> TRUE, data |-> all_data], cat, res) IN
    /\ all_data' = acc.data
    /\ net_requests' = net_requests + res.requests
    /\ catLog' = Append(catLog, res.ok)
    /\ catResults' = Append(catResults, res)
    /\ IF acc.ok
         THEN /\ cat' = cat + 1
              /\ UNCHANGED <<fpc, fetchResult>>
         ELSE /\ fpc' = "returned"
              /\ fetchResult' = [ok |-> FALSE, data |-> <<>>]
              /\ UNCHANGED cat
    /\ UNCHANGED <<method, pagination, categories, outsideFetch>>

\* GET arm, pagination type "none"
GetSingleCategory ==
    /\ fpc = "running"
    /\ method = "GET"
    /\ pagination = "none"
    /\ cat <= categories
    /\ \E o \in Outcomes : CategoryDone(FetchGetSingle(o))

\* GET arm, any other pagination type
GetPaginatedCategory ==
    /\ fpc = "running"
    /\ method = "GET"
    /\ pagination /= "none"
    /\ cat <= categories
    /\ \E script \in Scripts : CategoryDone(FetchPaginated("GET", script))

\* POST arm
PostPaginatedCategory ==
    /\ fpc = "running"
    /\ method = "POST"
    /\ cat <= categories
    /\ \E script \in Scripts : CategoryDone(FetchPaginated("POST", script))

\* the `_` arm: return Err(anyhow!("Unsupported HTTP method"))
UnsupportedMethod ==
    /\ fpc = "running"
    /\ ~Supported(method)
    /\ fpc' = "returned"
    /\ fetchResult' = [ok |-> FALSE, data |-> <<>>]
    /\ UNCHANGED <<method, pagination, categories, cat, all_data,
                   net_requests, catLog, catResults, outsideFetch>>

\* the category loop is over: Ok(all_data)
FetchAllReturn ==
    /\ fpc = "running"
    /\ Supported(method)
    /\ cat > categories
    /\ fpc' = "returned"
    /\ fetchResult' = [ok |-> TRUE, data |-> all_data]
    /\ UNCHANGED <<method, pagination, categories, cat, all_data,
                   net_requests, catLog, catResults, outsideFetch>>

\* no pagination loop is being traced
IdlePage ==
    /\ page = 0
    /\ consecutive_empty_pages = 0
    /\ all_products = <<>>
    /\ pc = "idle"
    /\ requests = 0
    /\ sleeps = 0
    /\ lastOutcome = "none"
    /\ sinceNonEmpty = 0
    /\ failures = 0
    /\ outages = 0
    /\ consecFail = FALSE
    /\ lastRequested = -1
    /\ returned = "none"
    /\ held = 0
    /\ exhausted = FALSE

\* request methods a config file may name
ConfigMethods == Methods \cup {"PUT"}

\* fetch_all_categories is entered: `let mut all_data = Vec::new()`
InitFetch ==
    /\ method \in ConfigMethods
    /\ pagination \in {"page", "none"}
    /\ categories \in 0..MaxCategories
    /\ cat = 1
    /\ all_data = <<>>
    /\ fpc = "running"
    /\ fetchResult = "none"
    /\ net_requests = 0
    /\ catLog = <<>>
    /\ catResults = <<>>
    /\ IdlePage
    /\ IdleFlat
    /\ IdleRun
    /\ IdleUnits
    /\ IdleHtml
    /\ IdleClass

NextFetch ==
    \/ GetSingleCategory
    \/ GetPaginatedCategory
    \/ PostPaginatedCategory
    \/ UnsupportedMethod
    \/ FetchAllReturn

SpecFetch == InitFetch /\ [][NextFetch]_vars

\* ---------------------------------------------------------- JSON values

\* serde_json::Value; numbers carry their serde kind (u64: non-negative
\* integer, i64: negative integer, f64: written with a fraction or exponent)
\* and their value in hundredths
JNull == [t |-> "null"]
JBool(b) == [t |-> "bool", b |-> b]
JNum(k, c) == [t |-> "num", k |-> k, c |-> c]
JStr(str) == [t |-> "str", s |-> str]
JArr(a) == [t |-> "arr", a |-> a]
JObj(o) == [t |-> "obj", o |-> o]

\* Option
None == [t |-> "none"]
Some(str) == [t |-> "some", s |-> str]
IsSome(x) == x.t = "some"
OrElse(x, y) == IF IsSome(x) THEN x ELSE y

\* Value::get(key): only an object has keys
Get(v, key) == IF v.t = "obj" /\ key \in DOMAIN v.o THEN v.o[key] ELSE None

\* Value::as_str / as_u64 / as_array
AsStr(v) == IF v.t = "str" THEN Some(v.s) ELSE None
IsU64(v) == v.t = "num" /\ v.k = "u64"
IsArray(v) == v.t = "arr"

\* ---------------------------------------------------------------- text

Digit(d) == SubSeq("0123456789", d + 1, d + 1)

\* u64::to_string
RECURSIVE NatToString(_)
NatToString(n) ==
    IF n < 10 THEN Digit(n) ELSE NatToString(n \div 10) \o Digit(n % 10)

\* i64::to_string
IntToString(i) == IF i < 0 THEN "-" \o NatToString(0 - i) ELSE NatToString(i)

\* f64::to_string of a non-integral value given in hundredths
FracToString(c) ==
    LET a == IF c < 0 THEN 0 - c ELSE c
        frac == a % 100
    IN (IF c < 0 THEN "-" ELSE "") \o NatToString(a \div 100) \o "."
       \o (IF frac % 10 = 0 THEN Digit(frac \div 10)
           ELSE Digit(frac \div 10) \o Digit(frac % 10))

CharAt(str, i) == SubSeq(str, i, i)
IsDigit(ch) == \E d \in 0..9 : ch = Digit(d)
DigitVal(ch) == CHOOSE d \in 0..9 : ch = Digit(d)

\* what a scan of decimal text has seen so far
ScanStart ==
    [ok |-> TRUE, neg |-> FALSE, dot |-> FALSE,
     ip |-> 0, nip |-> 0, fp |-> 0, nfp |-> 0]

\* the scan after the character ch, which is the first one iff first
Feed(acc, ch, first) ==
    IF ~acc.ok THEN acc
    ELSE IF first /\ ch \in {"-", "+"} THEN [acc EXCEPT !.neg = (ch = "-")]
    ELSE IF ch = "." /\ ~acc.dot THEN [acc EXCEPT !.dot = TRUE]
    ELSE IF ~IsDigit(ch) THEN [acc EXCEPT !.ok = FALSE]
    ELSE IF acc.dot
      THEN [acc EXCEPT !.fp = @ * 10 + DigitVal(ch), !.nfp = @ + 1]
    ELSE [acc EXCEPT !.ip = @ * 10 + DigitVal(ch), !.nip = @ + 1]

RECURSIVE Scan(_, _, _)
Scan(str, i, acc) ==
    IF i > Len(str) THEN acc
    ELSE Scan(str, i + 1, Feed(acc, CharAt(str, i), i = 1))

\* the value of a finished scan, in hundredths
Finish(acc) ==
    IF ~(acc.ok /\ acc.nip + acc.nfp > 0 /\ acc.nfp <= 2)
      THEN [ok |-> FALSE, c |-> 0]
    ELSE [ok |-> TRUE,
          c |-> (IF acc.neg THEN -1 ELSE 1)
                * (acc.ip * 100 + (IF acc.nfp = 1 THEN acc.fp * 10 ELSE acc.fp))]

\* str::parse::<f64> on plain decimal text: an optional sign, digits, and an
\* optional "." with digits (at most two are kept exactly); anything else,
\* surrounding blanks included, is an error.  Exponents and inf/nan
\* spellings are outside the texts considered.  The result is in hundredths.
ParseF64(str) == Finish(Scan(str, 1, ScanStart))

Upper == "ABCDEFGHIJKLMNOPQRSTUVWXYZ"
Lower == "abcdefghijklmnopqrstuvwxyz"

LowerChar(ch) ==
    IF \E i \in 1..26 : CharAt(Upper, i) = ch
      THEN CharAt(Lower, CHOOSE i \in 1..26 : CharAt(Upper, i) = ch)
      ELSE ch

\* str::to_lowercase (ASCII letters)
RECURSIVE ToLower(_)
ToLower(str) ==
    IF str = "" THEN ""
    ELSE LowerChar(CharAt(str, 1)) \o ToLower(SubSeq(str, 2, Len(str)))

\* str::trim (blanks)
RECURSIVE TrimStart(_)
TrimStart(str) ==
    IF str /= "" /\ CharAt(str, 1) = " "
      THEN TrimStart(SubSeq(str, 2, Len(str))) ELSE str

RECURSIVE TrimEnd(_)
TrimEnd(str) ==
    IF str /= "" /\ CharAt(str, Len(str)) = " "
      THEN TrimEnd(SubSeq(str, 1, Len(str) - 1)) ELSE str

Trim(str) == TrimEnd(TrimStart(str))

\* [String]::join(sep)
RECURSIVE Join(_, _)
Join(strs, sep) ==
    IF strs = <<>> THEN ""
    ELSE IF Len(strs) = 1 THEN strs[1]
    ELSE strs[1] \o sep \o Join(Tail(strs), sep)

\* str::starts_with
StartsWith(str, pat) ==
    Len(pat) <= Len(str) /\ SubSeq(str, 1, Len(pat)) = pat

\* str::contains
Contains(str, pat) ==
    \E i \in 1..(Len(str) - Len(pat) + 1) :
        SubSeq(str, i, i + Len(pat) - 1) = pat

\* str::replace(pat, ""): the non-overlapping occurrences of pat, found from
\* the left, are removed
RECURSIVE Remove(_, _)
Remove(str, pat) ==
    IF str = "" THEN ""
    ELSE IF StartsWith(str, pat)
      THEN Remove(SubSeq(str, Len(pat) + 1, Len(str)), pat)
    ELSE CharAt(str, 1) \o Remove(SubSeq(str, 2, Len(str)), pat)

\* char::is_alphabetic / is_whitespace / is_digit on the characters used
IsAlphabetic(ch) == \E i \in 1..26 : ch = CharAt(Upper, i) \/ ch = CharAt(Lower, i)
IsWhitespace(ch) == ch = " "

\* str::split_whitespace().count(): inWord says whether the scan is inside
\* a word
RECURSIVE WordCount(_, _)
WordCount(str, inWord) ==
    IF str = "" THEN 0
    ELSE IF IsWhitespace(CharAt(str, 1))
      THEN WordCount(SubSeq(str, 2, Len(str)), FALSE)
    ELSE (IF inWord THEN 0 ELSE 1) + WordCount(SubSeq(str, 2, Len(str)), TRUE)

\* ---------------------------------------------------------------- regex
\* The patterns of the regex crate used here, as trees: a character class,
\* any character, the end of the text, a concatenation, an ordered
\* alternation, a greedy repetition of a class, and the two ends of capture
\* group 1.

Cls(set) == [t |-> "cls", set |-> set]
AnyChar == [t |-> "any"]
Eos == [t |-> "eos"]
Cat(parts) == [t |-> "cat", parts |-> parts]
Alt(parts) == [t |-> "alt", parts |-> parts]
Star(one) == [t |-> "star", one |-> one]
Plus(one) == Cat(<<one, Star(one)>>)
Opt(re) == Alt(<<re, Cat(<<>>)>>)
Cap(re) == Cat(<<[t |-> "open"], re, [t |-> "close"]>>)

UpperChar(ch) ==
    IF \E i \in 1..26 : CharAt(Lower, i) = ch
      THEN CharAt(Upper, CHOOSE i \in 1..26 : CharAt(Lower, i) = ch)
      ELSE ch

\* the literal text lit; under (?i) a letter stands for both of its cases
Lit(lit, ci) ==
    Cat([i \in 1..Len(lit) |->
            Cls(IF ci THEN {LowerChar(CharAt(lit, i)), UpperChar(CharAt(lit, i))}
                      ELSE {CharAt(lit, i)})])

\* an alternation of literal texts, tried in the order written
Lits(lits, ci) == Alt([i \in 1..Len(lits) |-> Lit(lits[i], ci)])

\* does the one-character pattern one accept the character ch
Accepts(one, ch) == one.t = "any" \/ ch \in one.set

\* a position in the text: e is the next character to read, cs and ce the
\* ends of capture group 1 (ce is exclusive)
NoMatch == [ok |-> FALSE, e |-> 0, cs |-> 0, ce |-> 0, s |-> 0]
StartAt(i) == [ok |-> TRUE, e |-> i, cs |-> 0, ce |-> 0, s |-> i]

\* the first (Last = FALSE) or last (Last = TRUE) successful entry of the
\* sequence of match results f, NoMatch when there is none
Preferred(f, Last) ==
    IF \A i \in DOMAIN f : ~f[i].ok THEN NoMatch
    ELSE f[CHOOSE i \in DOMAIN f :
              /\ f[i].ok
              /\ \A j \in DOMAIN f :
                    f[j].ok => IF Last THEN j <= i ELSE i <= j]

\* how many characters from position i on the one-character pattern accepts
RunLength(one, str, i) ==
    CHOOSE k \in 0..(Len(str) + 1 - i) :
        /\ \A j \in 0..(k - 1) : Accepts(one, CharAt(str, i + j))
        /\ i + k > Len(str) \/ ~Accepts(one, CharAt(str, i + k))

\* Backtracking match of the patterns of stack, one after the other, from
\* position st: the match the regex crate prefers (leftmost alternative,
\* longest repetition first), or NoMatch.
RECURSIVE Run(_, _, _), Step(_, _, _, _)
Run(stack, str, st) ==
    IF stack = <<>> THEN st
    ELSE CHOOSE out \in {Step(h, rest, str, s) :
                            h \in {Head(stack)}, rest \in {Tail(stack)},
                            s \in {st}} : TRUE

Step(h, rest, str, st) ==
    CASE h.t \in {"cls", "any"} ->
            IF st.e <= Len(str) /\ Accepts(h, CharAt(str, st.e))
              THEN Run(rest, str, [st EXCEPT !.e = @ + 1])
              ELSE NoMatch
      [] h.t = "eos" ->
            IF st.e = Len(str) + 1 THEN Run(rest, str, st) ELSE NoMatch
      [] h.t = "cat" -> Run(h.parts \o rest, str, st)
      [] h.t = "alt" ->
            CHOOSE out \in
              {Preferred(f, FALSE) :
                 f \in {[i \in 1..Len(h.parts) |->
                           Run(<<h.parts[i]>> \o rest, str, st)]}} : TRUE
      [] h.t = "star" ->
            CHOOSE out \in
              {Preferred(f, TRUE) :
                 f \in {[k \in 1..(RunLength(h.one, str, st.e) + 1) |->
                           Run(rest, str, [st EXCEPT !.e = @ + k - 1])]}} : TRUE
      [] h.t = "open" -> Run(rest, str, [st EXCEPT !.cs = st.e])
      [] h.t = "close" -> Run(rest, str, [st EXCEPT !.ce = st.e])

\* Regex::captures: the match at the leftmost position where there is one,
\* with s its start
Search(re, str) ==
    CHOOSE out \in
      {Preferred(f, FALSE) :
         f \in {[i \in 1..(Len(str) + 1) |->
                   Run(<<re>>, str, StartAt(i))]}} : TRUE

Captures(re, str) == Search(re, str)

\* Regex::replace(str, ""): the leftmost match is removed
ReplaceFirst(re, str) ==
    CHOOSE out \in
      {IF m.ok THEN SubSeq(str, 1, m.s - 1) \o SubSeq(str, m.e, Len(str))
               ELSE str : m \in {Captures(re, str)}} : TRUE

\* ------------------------------------------------------------- Flattener

\* the closure get_string: the text of a string field, "" otherwise
GetString(item, key) ==
    LET v == Get(item, key) IN IF v.t = "str" THEN v.s ELSE ""

\* "format as integer if it's a whole number"
FormatF64(c) == IF c % 100 = 0 THEN IntToString(c \div 100) ELSE FracToString(c)

\* the closure get_number: a JSON number, or a string that parses as a float
GetNumber(item, key) ==
    LET v == Get(item, key) IN
    IF v.t = "num" THEN Some(FormatF64(v.c))
    ELSE IF v.t = "str"
      THEN LET f == ParseF64(v.s) IN
           IF f.ok THEN Some(FormatF64(f.c)) ELSE None
    ELSE None

NonEmpty(str) == IF str /= "" THEN Some(str) ELSE None

\* "Extract identifier - try multiple field names"
Identifier_SkuFirst(item) ==
    IF GetString(item, "sku") /= "" THEN Some(GetString(item, "sku"))
    ELSE IF IsU64(Get(item, "product_id"))
      THEN Some(NatToString(Get(item, "product_id").c \div 100))
    ELSE IF IsSome(AsStr(Get(item, "productID")))
      THEN AsStr(Get(item, "productID"))
    ELSE OrElse(NonEmpty(GetString(item, "id")),
                NonEmpty(GetString(item, "variantTitleSlug")))
Identifier(item) ==
    IF IsU64(Get(item, "product_id"))
      THEN Some(NatToString(Get(item, "product_id").c \div 100))
    ELSE IF IsSome(AsStr(Get(item, "productID")))
      THEN AsStr(Get(item, "productID"))
    ELSE OrElse(NonEmpty(GetString(item, "sku")),
         OrElse(NonEmpty(GetString(item, "id")),
                NonEmpty(GetString(item, "variantTitleSlug"))))

\* "Extract name - try multiple field names"
ExtractName(item) ==
    IF GetString(item, "name") /= "" THEN GetString(item, "name")
    ELSE IF GetString(item, "title") /= "" THEN GetString(item, "title")
    ELSE GetString(item, "productName")

\* arr.first().get(key) of an array field
FirstGet(item, field, key) ==
    LET arr == Get(item, field) IN
    IF IsArray(arr) /\ arr.a /= <<>> THEN Get(arr.a[1], key) ELSE None

\* "Extract cost_price with multiple fallbacks"
ExtractCostPrice(item) ==
    OrElse(GetNumber(item, "cost_price"),
    OrElse(GetNumber(item, "special_price"),
    OrElse(GetNumber(item, "discountedPrice"),
    OrElse(GetNumber(item, "discounted_price"),
    OrElse(GetNumber(item, "price"),
           AsStr(FirstGet(item, "groupRanges", "discountedPrice")))))))

\* "Extract mrp with multiple fallbacks"
ExtractMrp(item) ==
    OrElse(GetNumber(item, "mrp"),
    OrElse(GetNumber(item, "product_price"),
    OrElse(GetNumber(item, "actualPrice"),
    OrElse(GetNumber(item, "actual_price"),
    OrElse(GetNumber(item, "originalPrice"),
    OrElse(GetNumber(item, "original_price"),
           LET v == FirstGet(item, "inventories", "dcImsMrp") IN
           IF IsU64(v) THEN Some(NatToString(v.c \div 100)) ELSE None))))))

\* the value of the first element of the attributes array whose key is k
RECURSIVE FindAttr(_, _)
FindAttr(attrs, k) ==
    IF attrs = <<>> THEN None
    ELSE IF AsStr(Get(attrs[1], "key")) = Some(k) THEN AsStr(Get(attrs[1], "value"))
    ELSE FindAttr(Tail(attrs), k)

AttributeValue(item, k) ==
    LET attrs == Get(item, "attributes") IN
    IF IsArray(attrs) THEN FindAttr(attrs.a, k) ELSE None

\* "Extract sku with fallback to identifier"
ExtractSku(item) ==
    LET direct == GetString(item, "sku")
        sku == IF direct /= "" THEN direct
               ELSE LET a == AttributeValue(item, "sku") IN
                    IF IsSome(a) THEN a.s ELSE ""
    IN IF sku /= "" THEN Some(sku)
       ELSE IF IsSome(Identifier(item)) THEN Some("SKU_" \o Identifier(item).s)
       ELSE None

\* f64::to_string of a parsed value
F64ToString(c) == IF c % 100 = 0 THEN IntToString(c \div 100) ELSE FracToString(c)

\* "Extract discount percentage with multiple fallbacks"
ExtractDiscount(item) ==
    OrElse(GetNumber(item, "sku_percent_off"),
    OrElse(LET f == ParseF64(GetString(item, "sku_percent_off")) IN
           IF f.ok THEN Some(F64ToString(f.c)) ELSE None,
    OrElse(NonEmpty(GetString(item, "sku_percent_off")),
    OrElse(GetNumber(item, "discount_percentage"),
    OrElse(GetNumber(item, "discountPercentage"),
           IF Get(item, "productID") /= None THEN Some("0.00") ELSE None)))))

\* "Extract units_of_mass"
ExtractUnits(item) ==
    IF GetString(item, "units_of_mass") /= "" THEN GetString(item, "units_of_mass")
    ELSE IF GetString(item, "unit") /= "" THEN GetString(item, "unit")
    ELSE IF GetString(item, "baseUnit") /= "" THEN GetString(item, "baseUnit")
    ELSE LET a == AttributeValue(item, "baseUnit") IN
         IF IsSome(a) THEN a.s ELSE "N/A"

\* filter_map over the categories array: category_name, trimmed, lower-cased
RECURSIVE CategoryNames(_)
CategoryNames(cats) ==
    IF cats = <<>> THEN <<>>
    ELSE LET n == AsStr(Get(cats[1], "category_name")) IN
         (IF IsSome(n) THEN <<ToLower(Trim(n.s))>> ELSE <<>>)
         \o CategoryNames(Tail(cats))

\* filter_map over the productCategory array: category.name, trimmed
RECURSIVE ProductCategoryNames(_)
ProductCategoryNames(cats) ==
    IF cats = <<>> THEN <<>>
    ELSE LET n == AsStr(Get(Get(cats[1], "category"), "name")) IN
         (IF IsSome(n) THEN <<Trim(n.s)>> ELSE <<>>)
         \o ProductCategoryNames(Tail(cats))

\* "Extract category names with multiple fallbacks"
ExtractCategory(item) ==
    IF IsArray(Get(item, "categories"))
      THEN Join(CategoryNames(Get(item, "categories").a), ", ")
    ELSE IF IsArray(Get(item, "productCategory"))
      THEN Join(ProductCategoryNames(Get(item, "productCategory").a), ", ")
    ELSE IF IsSome(AsStr(Get(item, "category_section")))
      THEN Get(item, "category_section").s
    ELSE IF GetString(item, "category") /= "" THEN GetString(item, "category")
    ELSE IF GetString(item, "categoryName") /= ""
      THEN GetString(item, "categoryName")
    ELSE GetString(item, "category_name")

\* record.insert(key, value) when the option holds a value
Put(rec, key, opt) == IF IsSome(opt) THEN (key :> opt.s) @@ rec ELSE rec

\* the (key, value) pairs extract_fields_directly offers to the record, in
\* the order of its insertions
Extracted(item) ==
    <<[key |-> "product_id", opt |-> Identifier(item)],
      [key |-> "name", opt |-> NonEmpty(ExtractName(item))],
      [key |-> "cost_price", opt |-> ExtractCostPrice(item)],
      [key |-> "mrp", opt |-> ExtractMrp(item)],
      [key |-> "sku", opt |-> ExtractSku(item)],
      [key |-> "sku_percent_off", opt |-> ExtractDiscount(item)],
      [key |-> "units_of_mass", opt |-> Some(ExtractUnits(item))],
      [key |-> "category_name", opt |-> NonEmpty(ExtractCategory(item))]>>

\* the record after the insertions from position i on
RECURSIVE InsertAll(_, _, _)
InsertAll(pairs, i, rec) ==
    IF i > Len(pairs) THEN rec
    ELSE InsertAll(pairs, i + 1, Put(rec, pairs[i].key, pairs[i].opt))

\* extract_fields_directly: the flat record of one item.  Every path ends in
\* Ok(record).
ExtractFieldsDirectly(item) ==
    [ok |-> TRUE, record |-> InsertAll(Extracted(item), 1, <<>>)]

\* the column order of records_to_dataframe
FlatFields ==
    <<"cost_price", "mrp", "name", "sku", "product_id", "sku_percent_off",
      "category_name", "units_of_mass">>

\* record.get(field).cloned().unwrap_or_default()
FieldOr(rec, field) == IF field \in DOMAIN rec THEN rec[field] ELSE ""

\* A DataFrame is its sequence of columns [name, values]; DataFrame::empty()
\* has no column.
EmptyFrame == <<>>

\* records_to_dataframe
RecordsToDataframe(records) ==
    IF records = <<>> THEN EmptyFrame
    ELSE [f \in 1..Len(FlatFields) |->
             [name |-> FlatFields[f],
              values |-> [i \in 1..Len(records) |->
                             FieldOr(records[i], FlatFields[f])]]]

Height(fr) == IF fr = <<>> THEN 0 ELSE Len(fr[1].values)

\* df.column(col) and its i-th value
Column(fr, col) == CHOOSE c \in {fr[j] : j \in 1..Len(fr)} : c.name = col
Cell(fr, col, i) == Column(fr, col).values[i]

\* the loop of flatten_to_dataframe over the items from position i on:
\* acc = [records, successful, failed]
RECURSIVE ExtractAll(_, _, _)
ExtractAll(items, i, acc) ==
    IF i > Len(items) THEN acc
    ELSE LET ex == ExtractFieldsDirectly(items[i]) IN
         ExtractAll(items, i + 1,
            IF ex.ok
              THEN [acc EXCEPT !.records = Append(acc.records, ex.record),
                               !.successful = acc.successful + 1]
              ELSE [acc EXCEPT !.failed = acc.failed + 1])

\* flatten_to_dataframe
FlattenToDataframe(items) ==
    LET acc == ExtractAll(items, 1,
                          [records |-> <<>>, successful |-> 0, failed |-> 0])
    IN [frame |-> RecordsToDataframe(acc.records),
        successful |-> acc.successful, failed |-> acc.failed]

\* an object holding the fields of choice that are present
ObjOf(choice) ==
    JObj([k \in {f \in DOMAIN choice : choice[f] /= None} |-> choice[k]])

\* raw records that differ in their identifier fields, named or nameless
IdChoices ==
    [product_id : {None, JNull, JNum("u64", 700), JNum("i64", -700),
                   JNum("f64", 750), JStr("9")},
     productID : {None, JStr("P1"), JStr(""), JNum("u64", 500)},
     sku : {None, JStr(""), JStr("X")},
     id : {None, JStr(""), JStr("I1"), JNum("u64", 300)},
     variantTitleSlug : {None, JStr("V1")},
     name : {None, JStr("A")}]

\* raw records that differ in their name fields, identified or not
NameChoices ==
    [product_id : {None, JNum("u64", 700)},
     name : {None, JStr(""), JStr("A")},
     title : {None, JStr("T")},
     productName : {None, JStr("N")}]

IdItems == {ObjOf(c) : c \in IdChoices} \cup {ObjOf(c) : c \in NameChoices}

\* raw records of the kinds the sources deliver, complete and incomplete
CoreItems ==
    {JObj([product_id |-> JNum("u64", 100), name |-> JStr("A"),
           cost_price |-> JNum("u64", 1000), mrp |-> JNum("u64", 2000)]),
     JObj([sku |-> JStr("X"), product_price |-> JStr("15.00"),
           special_price |-> JStr("8.00"), name |-> JStr("B")]),
     JObj([name |-> JStr("C"), price |-> JNum("f64", 1250)]),
     JObj([product_id |-> JNum("u64", 200), mrp |-> JNum("u64", 500)]),
     JObj([productID |-> JStr("P9"), title |-> JStr("T"),
           price |-> JNum("f64", 15050)]),
     JStr("oops")}

\* raw records that differ in the entries of the cost_price chain
CostChoices ==
    [name : {JStr("A")},
     cost_price : {None, JNull, JNum("u64", 1000), JStr("8.00"), JStr("abc")},
     price : {None, JNum("f64", 1250)},
     groupRanges : {None, JArr(<<>>),
                    JArr(<<JObj([discountedPrice |-> JStr("9.00")])>>),
                    JArr(<<JObj([discountedPrice |-> JNum("u64", 900)])>>),
                    JArr(<<JObj([discountedPrice |-> JStr("abc")])>>)}]

\* raw records that differ in the entries of the mrp chain
MrpChoices ==
    [name : {JStr("A")},
     mrp : {None, JNull, JNum("u64", 2000), JStr("x")},
     original_price : {None, JStr("15.00")},
     inventories : {None, JArr(<<>>),
                    JArr(<<JObj([dcImsMrp |-> JNum("u64", 500)])>>),
                    JArr(<<JObj([dcImsMrp |-> JNum("f64", 550)])>>),
                    JArr(<<JObj([dcImsMrp |-> JStr("5")])>>)}]

PriceItems == {ObjOf(c) : c \in CostChoices} \cup {ObjOf(c) : c \in MrpChoices}

\* raw records that differ in the entries of the category chain
CategoryChoices ==
    [name : {JStr("A")},
     categories : {None, JArr(<<>>),
                   JArr(<<JObj([category_name |-> JStr(" Fruits ")])>>),
                   JArr(<<JObj([slug |-> JStr("f")])>>)},
     productCategory : {None, JArr(<<>>),
                        JArr(<<JObj([category |-> JObj([name |-> JStr("Veg")])])>>)},
     category_section : {None, JStr(""), JStr("S")},
     category : {None, JStr("X")},
     categoryName : {None, JStr("Y")}]

CategoryItems == {ObjOf(c) : c \in CategoryChoices}

\* raw records that differ in their prices, discount, units and name
DiscountChoices ==
    [name : {JStr("A"), JStr(" Fresh  Apple ")},
     cost_price : {None, JNum("u64", 23400), JNum("u64", 50000),
                   JNum("f64", 1999)},
     mrp : {None, JNum("u64", 39000), JNum("u64", 0), JNum("u64", 30000)},
     sku_percent_off : {None, JStr("40% off"), JNum("u64", 2500), JStr("none")},
     groupRanges : {None, JArr(<<JObj([discountedPrice |-> JStr("$1,200")])>>)},
     units_of_mass : {None, JStr("kg"), JStr("1 kg"), JStr("1.5 kg")}]

DiscountItems == {ObjOf(c) : c \in DiscountChoices}

Batches ==
    {<<i>> : i \in IdItems \cup PriceItems \cup CategoryItems
                      \cup DiscountItems}
        \cup SeqsUpTo(CoreItems, MaxBatch)

\* flatten_to_dataframe(&json_data)
FlattenAll ==
    /\ flpc = "input"
    /\ \E res \in {FlattenToDataframe(json_data)} :
       /\ df' = res.frame
       /\ successful_count' = res.successful
       /\ failed_count' = res.failed
    /\ flpc' = "flat"
    /\ UNCHANGED <<json_data, batch_len, batched, classified, normalized,
                   renormalized, outsideFlat>>

\* slice::chunks(n): consecutive chunks of n items, the last one shorter
RECURSIVE Chunks(_, _)
Chunks(items, n) ==
    IF Len(items) <= n THEN (IF items = <<>> THEN <<>> ELSE <<items>>)
    ELSE <<SubSeq(items, 1, n)>> \o Chunks(SubSeq(items, n + 1, Len(items)), n)

FrameNames(fr) == [j \in 1..Len(fr) |-> fr[j].name]

\* DataFrame::vstack: the rows of other under the rows of fr; the two frames
\* must have the same columns (here every column is a string column)
VStack_KeepFirst(fr, other) == [ok |-> TRUE, frame |-> fr]
VStack(fr, other) ==
    IF FrameNames(fr) /= FrameNames(other) THEN [ok |-> FALSE, frame |-> <<>>]
    ELSE [ok |-> TRUE,
          frame |-> [j \in 1..Len(fr) |->
                        [name |-> fr[j].name,
                         values |-> fr[j].values \o other[j].values]]]

\* the loop over the batches from position i on: the frames of the batches
\* that produced records
RECURSIVE BatchFrames(_, _)
BatchFrames(batches, i) ==
    IF i > Len(batches) THEN <<>>
    ELSE LET acc == ExtractAll(batches[i], 1,
                        [records |-> <<>>, successful |-> 0, failed |-> 0])
         IN (IF acc.records /= <<>>
               THEN <<RecordsToDataframe(acc.records)>> ELSE <<>>)
            \o BatchFrames(batches, i + 1)

\* "Concatenate all DataFrames": combined is stacked with the frames from
\* position i on; a failing vstack is returned as the error
RECURSIVE Combine(_, _, _)
Combine(combined, frames, i) ==
    IF i > Len(frames) THEN [ok |-> TRUE, frame |-> combined]
    ELSE IF ~VStack(combined, frames[i]).ok THEN [ok |-> FALSE, frame |-> <<>>]
    ELSE Combine(VStack(combined, frames[i]).frame, frames, i + 1)

\* flatten_to_dataframe_batched over batches that were all read
FlattenToDataframeBatched(batches) ==
    IF BatchFrames(batches, 1) = <<>> THEN [ok |-> TRUE, frame |-> EmptyFrame]
    ELSE Combine(BatchFrames(batches, 1)[1], BatchFrames(batches, 1), 2)

\* largest chunk size tried
MaxChunk == 2

\* stream_latest_raw_data_batched(batch_size) over the same records, then
\* flatten_to_dataframe_batched
FlattenBatched ==
    /\ flpc = "flat"
    /\ \E n \in 1..MaxChunk :
          /\ batch_len' = n
          /\ batched' \in {FlattenToDataframeBatched(Chunks(json_data, n))}
    /\ flpc' = "batched"
    /\ UNCHANGED <<json_data, df, successful_count, failed_count, classified,
                   normalized, renormalized, outsideFlat>>

\* ------------------------------------------------------------ Classifier

Map(p, c) == [pattern |-> p, canonical |-> c]

\* FieldClassifier::new: the alias table.  It is a HashMap, so it has one
\* entry per pattern and no iteration order of its own.
FieldMappings ==
    {Map("cost_price", "cost_price"), Map("mrp", "mrp"), Map("name", "name"),
     Map("sku", "sku"), Map("sku_percent_off", "discount"),
     Map("category_name", "category"),
     Map("id", "product_id"), Map("dcImsMrp", "mrp"),
     Map("discountedPrice", "cost_price"), Map("productCategory", "category"),
     Map("productID", "product_id"), Map("originalPrice", "mrp"),
     Map("price", "cost_price"), Map("category_section", "category"),
     Map("product_price", "mrp"), Map("special_price", "cost_price"),
     Map("selling_price", "cost_price"), Map("product_name", "name"),
     Map("item_name", "name"), Map("title", "name"),
     Map("product_id", "product_id"), Map("item_id", "product_id"),
     Map("discount", "discount"), Map("discount_percent", "discount"),
     Map("percent_off", "discount"), Map("category", "category"),
     Map("product_category", "category"), Map("item_category", "category")}

\* normalize_field_name
NormalizeFieldName(name) ==
    Remove(Remove(Remove(ToLower(name), "_"), "-"), " ")

\* number of decimal digits in str
RECURSIVE DigitCount(_)
DigitCount(str) ==
    IF str = "" THEN 0
    ELSE (IF IsDigit(CharAt(str, 1)) THEN 1 ELSE 0)
         + DigitCount(SubSeq(str, 2, Len(str)))

RECURSIVE AllAlphaOrSpace(_)
AllAlphaOrSpace(str) ==
    \/ str = ""
    \/ /\ IsAlphabetic(CharAt(str, 1)) \/ IsWhitespace(CharAt(str, 1))
       /\ AllAlphaOrSpace(SubSeq(str, 2, Len(str)))

RECURSIVE AnyAlphabetic(_)
AnyAlphabetic(str) ==
    /\ str /= ""
    /\ \/ IsAlphabetic(CharAt(str, 1))
       \/ AnyAlphabetic(SubSeq(str, 2, Len(str)))

\* looks_like_price (of the currency signs only "$" occurs in the texts
\* considered)
LooksLikePrice(value) ==
    \/ Contains(value, "$")
    \/ Contains(value, ".") /\ DigitCount(value) > 0
    \/ ParseF64(value).ok

\* looks_like_discount
LooksLikeDiscount(value) ==
    \/ Contains(value, "%")
    \/ Contains(value, "off")
    \/ Contains(value, "discount")
    \/ ParseF64(value).ok /\ ParseF64(value).c <= 100 * 100

\* looks_like_name
LooksLikeName(value) ==
    /\ Len(value) > 3
    /\ AnyAlphabetic(value)
    /\ WordCount(value, FALSE) >= 2

\* looks_like_category
LooksLikeCategory(value) ==
    /\ Len(value) < 50
    /\ AllAlphaOrSpace(value)
    /\ ~Contains(value, ".")

\* classify_by_content, "check field name patterns first": the class the
\* lower-cased field name points to, "" when it points to none
NameClass(field_lower) ==
    IF /\ Contains(field_lower, "sku")
       /\ ~Contains(field_lower, "percent")
       /\ ~Contains(field_lower, "off") THEN "sku"
    ELSE IF \/ Contains(field_lower, "price")
            \/ Contains(field_lower, "cost")
            \/ Contains(field_lower, "mrp") THEN "cost_price"
    ELSE IF \/ Contains(field_lower, "name")
            \/ Contains(field_lower, "title")
            \/ Contains(field_lower, "product") /\ ~Contains(field_lower, "id")
      THEN "name"
    ELSE IF Contains(field_lower, "id") \/ Contains(field_lower, "product_id")
      THEN "product_id"
    ELSE IF \/ Contains(field_lower, "discount")
            \/ Contains(field_lower, "off")
            \/ Contains(field_lower, "percent") THEN "discount"
    ELSE IF \/ Contains(field_lower, "category")
            \/ Contains(field_lower, "type")
            \/ Contains(field_lower, "class") THEN "category"
    ELSE ""

\* classify_by_content, "analyze sample values": the class the lower-cased
\* first sample points to, "" when it points to none
SampleClass(sample_str) ==
    IF LooksLikePrice(sample_str) THEN "cost_price"
    ELSE IF LooksLikeDiscount(sample_str) THEN "discount"
    ELSE IF LooksLikeName(sample_str) THEN "name"
    ELSE IF LooksLikeCategory(sample_str) THEN "category"
    ELSE ""

\* sample_values.first().unwrap_or(&String::new())
FirstOrEmpty(samples) == IF samples = <<>> THEN "" ELSE samples[1]

\* classify_by_content
ClassifyByContent(name, samples) ==
    IF NameClass(ToLower(name)) /= "" THEN NameClass(ToLower(name))
    ELSE IF SampleClass(ToLower(FirstOrEmpty(samples))) /= ""
      THEN SampleClass(ToLower(FirstOrEmpty(samples)))
    ELSE name

\* the alias table with `normalize_field_name(pattern)` in place of each
\* pattern, as both loops of classify_field compute it
NormalizedMappings ==
    {Map(NormalizeFieldName(m.pattern), m.canonical) : m \in FieldMappings}

\* the canonical targets of the alias-table entries whose normalized pattern
\* equals the normalized field name
ExactMatches_None(normalized_field) == {}
ExactMatches(normalized_field) ==
    {m.canonical : m \in {e \in NormalizedMappings :
        e.pattern = normalized_field}}

\* the canonical targets of the entries whose normalized pattern contains,
\* or is contained in, the normalized field name
FuzzyMatches(normalized_field) ==
    {m.canonical : m \in {e \in NormalizedMappings :
        \/ Contains(normalized_field, e.pattern)
        \/ Contains(e.pattern, normalized_field)}}

\* "Content-based classification as fallback", else the original name
ContentOrSelf(name, samples) ==
    IF samples /= <<>> THEN ClassifyByContent(name, samples) ELSE name

\* classify_field after `let normalized_field = ...`: the values it can
\* return.  Each loop returns at the first matching entry in the table's
\* iteration order, and every matching entry can be the first one.
Classified_FuzzyFirst(normalized_field, name, samples) ==
    IF FuzzyMatches(normalized_field) /= {}
      THEN FuzzyMatches(normalized_field)
    ELSE {ContentOrSelf(name, samples)}
Classified(normalized_field, name, samples) ==
    IF ExactMatches(normalized_field) /= {}
      THEN ExactMatches(normalized_field)
    ELSE IF FuzzyMatches(normalized_field) /= {}
      THEN FuzzyMatches(normalized_field)
    ELSE {ContentOrSelf(name, samples)}

\* classify_field: the values it can return
ClassifyField(name, samples) ==
    UNION {Classified(normalized_field, name, samples) :
              normalized_field \in {NormalizeFieldName(name)}}

\* column names handed to classify_field
FieldNames ==
    {m.pattern : m \in FieldMappings}
        \cup {"Product-ID", "SKU", "COST PRICE", "Cost-Price", "Product_Price",
              "Special-Price", "units_of_mass", "unknown_field",
              "mystery_column", "sku_code", "brand", "qty"}

\* sample values handed to classify_field
SampleLists ==
    {<<>>, <<"$19.99">>, <<"50%">>, <<"25% off">>, <<"TEST123">>, <<"kg">>,
     <<"50">>, <<"150">>, <<"Fresh Produce">>}

\* one call of classify_field
ClassifyFieldCall ==
    /\ cpc = "call"
    /\ classification' \in ClassifyField(field_name, sample_values)
    /\ cpc' = "done"
    /\ UNCHANGED <<field_name, sample_values, outsideClass>>

InitClassify ==
    /\ method = "GET"
    /\ IdlePage
    /\ IdleFetch
    /\ IdleFlat
    /\ IdleRun
    /\ IdleUnits
    /\ IdleHtml
    /\ field_name \in FieldNames
    /\ sample_values \in SampleLists
    /\ classification = ""
    /\ cpc = "call"

NextClassify ==
    \/ ClassifyFieldCall

SpecClassify == InitClassify /\ [][NextClassify]_vars

\* `.take(5)` of the sample values
SampleTake == 5

\* the sample values of a string column: its first five values (a column
\* the Flattener built holds no null)
SampleValues(col) ==
    SubSeq(col.values, 1, IF Len(col.values) < SampleTake
                            THEN Len(col.values) ELSE SampleTake)

\* Series::rename: the same values under another name
WithName(col, name) == [col EXCEPT !.name = name]

\* DataFrame::rename(column, name): refused, the frame untouched, when a
\* column called name exists already
Rename_Unchecked(fr, column, name) ==
    [ok |-> TRUE,
     frame |-> [j \in 1..Len(fr) |->
                   IF fr[j].name = column THEN WithName(fr[j], name)
                   ELSE fr[j]]]
Rename(fr, column, name) ==
    IF \E j \in 1..Len(fr) : fr[j].name = name
      THEN [ok |-> FALSE, frame |-> fr]
    ELSE [ok |-> TRUE,
          frame |-> [j \in 1..Len(fr) |->
                        IF fr[j].name = column THEN WithName(fr[j], name)
                        ELSE fr[j]]]

\* the body of the loop of map_to_canonical_schema for col_name: the frames
\* it can leave; the outcome of the rename is dropped (`let _ =`)
MapColumn(fr, col_name) ==
    IF ~\E j \in 1..Len(fr) : fr[j].name = col_name THEN {fr}
    ELSE {IF canonical_name /= col_name
            THEN Rename(fr, col_name, canonical_name).frame
            ELSE fr :
          canonical_name \in
              ClassifyField(col_name,
                  SampleValues(CHOOSE c \in {fr[j] : j \in 1..Len(fr)} :
                                   c.name = col_name))}

\* the loop of map_to_canonical_schema over the names taken before the loop,
\* from position i on
RECURSIVE MapColumns(_, _, _)
MapColumns(fr, column_names, i) ==
    IF i > Len(column_names) THEN {fr}
    ELSE UNION {MapColumns(f, column_names, i + 1) :
                    f \in MapColumn(fr, column_names[i])}

\* map_to_canonical_schema: the frames it can leave in df
MapToCanonicalSchema(fr) == MapColumns(fr, FrameNames(fr), 1)

\* field_classifier.map_to_canonical_schema(&mut df)
ClassifyFrame ==
    /\ flpc = "flat"
    /\ classified' \in MapToCanonicalSchema(df)
    /\ flpc' = "classified"
    /\ UNCHANGED <<json_data, df, successful_count, failed_count, batch_len,
                   batched, normalized, renormalized, outsideFlat>>

\* ------------------------------------------------------------ Normalizer

\* A Float64 column is [name, dtype |-> "f64", values], its cells Option<f64>
\* in hundredths; a column without dtype is a String column.
Null == [null |-> TRUE]
Num(c) == [null |-> FALSE, c |-> c]
DType(col) == IF "dtype" \in DOMAIN col THEN col.dtype ELSE "str"

\* Series::new(name, Vec<Option<f64>>) and Series::new(name, Vec<String>)
FloatSeries(name, values) == [name |-> name, dtype |-> "f64", values |-> values]
StringSeries(name, values) == [name |-> name, values |-> values]

HasColumn(fr, name) == \E j \in 1..Len(fr) : fr[j].name = name

\* DataFrame::with_column: the series replaces the column of its name, or
\* is appended when there is none
WithColumn(fr, series) ==
    IF HasColumn(fr, series.name)
      THEN [j \in 1..Len(fr) |->
               IF fr[j].name = series.name THEN series ELSE fr[j]]
    ELSE Append(fr, series)

\* outcomes of a step: it returned Ok, it returned Err, or it panicked
Done(fr) == [status |-> "ok", frame |-> fr]
Errored(fr) == [status |-> "err", frame |-> fr]
Panicked(fr) == [status |-> "panic", frame |-> fr]

\* f64::from_str(..).ok()
ParsedOrNull(str) ==
    CHOOSE cell \in {IF f.ok THEN Num(f.c) ELSE Null : f \in {ParseF64(str)}} :
        TRUE

\* the closure of normalize_price_column
PriceOf(str) == ParsedOrNull(Trim(Remove(Remove(str, "$"), ",")))

\* normalize_price_column; `series.str().unwrap()` panics on a column that
\* is not a String column
NormalizePriceColumn(fr, col_name) ==
    IF ~HasColumn(fr, col_name) THEN Done(fr)
    ELSE IF DType(Column(fr, col_name)) /= "str" THEN Panicked(fr)
    ELSE Done(WithColumn(fr,
            FloatSeries(col_name,
                [i \in 1..Height(fr) |-> PriceOf(Cell(fr, col_name, i))])))

\* str::split_whitespace: the words of str; word is the word being read
RECURSIVE Words(_, _)
Words(str, word) ==
    IF str = "" THEN (IF word = "" THEN <<>> ELSE <<word>>)
    ELSE IF IsWhitespace(CharAt(str, 1))
      THEN (IF word = "" THEN <<>> ELSE <<word>>)
           \o Words(SubSeq(str, 2, Len(str)), "")
    ELSE Words(SubSeq(str, 2, Len(str)), word \o CharAt(str, 1))

\* \s*, \s+, \d and the dash class [-–] (the texts use "-")
Blank == Cls({" "})
Blanks == Star(Blank)
Blanks1 == Plus(Blank)
DigitCls == Cls({Digit(d) : d \in 0..9})
Dash == Cls({"-"})
LetterSet == {CharAt(Upper, i) : i \in 1..26} \cup {CharAt(Lower, i) : i \in 1..26}

\* \d+(?:\.\d+)?\s*(?:gm|g|kg|ml|l|gram|...|milliliters)
MassUnits ==
    <<"gm", "g", "kg", "ml", "l", "gram", "grams", "kilogram", "kilograms",
      "liter", "liters", "milliliter", "milliliters">>
Quantity ==
    Cat(<<Plus(DigitCls), Opt(Cat(<<Lit(".", FALSE), Plus(DigitCls)>>)),
          Blanks, Lits(MassUnits, TRUE)>>)

\* pack\s+of\s+\d+ and half\s+dozen
PackOf ==
    Cat(<<Lit("pack", TRUE), Blanks1, Lit("of", TRUE), Blanks1, Plus(DigitCls)>>)
HalfDozen == Cat(<<Lit("half", TRUE), Blanks1, Lit("dozen", TRUE)>>)

\* unit_patterns[0]: parenthetical weight/volume units
ParenWeight ==
    Cat(<<Blanks, Opt(Dash), Blanks, Lit("(", FALSE), Blanks,
          Cap(Cat(<<Quantity,
                    Opt(Cat(<<Blanks, Lit("-", FALSE), Blanks, Quantity>>))>>)),
          Blanks, Lit(")", FALSE)>>)

\* unit_patterns[1]: parenthetical count/pack units
ParenCount ==
    Cat(<<Blanks, Opt(Dash), Blanks, Lit("(", FALSE), Blanks,
          Cap(Alt(<<PackOf,
                    Cat(<<Plus(DigitCls), Blanks1,
                          Alt(<<Lit("piece", TRUE), Lit("pieces", TRUE),
                                Lit("bundle", TRUE), Lit("bundles", TRUE),
                                Lit("dozen", TRUE), HalfDozen>>)>>)>>)),
          Blanks, Lit(")", FALSE)>>)

\* unit_patterns[2]: dash-separated count units
DashCount ==
    Cat(<<Blanks, Dash, Blanks,
          Cap(Alt(<<PackOf,
                    Cat(<<Plus(DigitCls), Blanks1,
                          Lits(<<"piece", "pieces", "bundle", "bundles",
                                 "dozen">>, TRUE)>>),
                    HalfDozen>>)),
          Blanks>>)

\* unit_patterns[3]: dash-separated weight/volume units
DashWeight == Cat(<<Blanks, Dash, Blanks, Cap(Quantity), Blanks>>)

\* unit_patterns[4]: space-separated units at the end
TrailingWeight == Cat(<<Blanks1, Cap(Quantity), Blanks, Eos>>)

\* unit_patterns, "order matters - most specific first"
UnitPatterns_Reversed ==
    <<TrailingWeight, DashWeight, DashCount, ParenCount, ParenWeight>>
UnitPatterns ==
    <<ParenWeight, ParenCount, DashCount, DashWeight, TrailingWeight>>

\* promo_regex: \s*\|\s*.*$
PromoRegex == Cat(<<Blanks, Lit("|", FALSE), Blanks, Star(AnyChar), Eos>>)

\* the words both description patterns list before their letter class
DescriptionWords ==
    <<"aalu", "pyaaz", "kheera", "sabzi", "dal", "atta", "masala", "spice",
      "powder", "paste", "sauce", "pickle", "jam", "honey", "sugar", "salt",
      "tea", "coffee", "milk", "butter", "cheese", "paneer", "curd", "yogurt",
      "bread", "biscuit", "cake", "sweet", "namkeen", "snack", "chips",
      "noodles", "pasta", "soup", "juice", "water", "cold drink", "soda">>

\* description_regex: \s*\(\s*(aalu|...|[a-zA-Z\s]+)\s*\)
DescriptionRegex ==
    Cat(<<Blanks, Lit("(", FALSE), Blanks,
          Cap(Alt(<<Lits(DescriptionWords, FALSE),
                    Plus(Cls(LetterSet \cup {" "}))>>)),
          Blanks, Lit(")", FALSE)>>)

\* non_unit_desc_regex: \s*\(\s*(aalu|...|[a-zA-Z\s]*[a-zA-Z])\s*\)
NonUnitDescRegex ==
    Cat(<<Blanks, Lit("(", FALSE), Blanks,
          Cap(Alt(<<Lits(DescriptionWords, FALSE),
                    Cat(<<Star(Cls(LetterSet \cup {" "})), Cls(LetterSet)>>)>>)),
          Blanks, Lit(")", FALSE)>>)

\* the `for pattern in &unit_patterns` loop from pattern k on: the first
\* pattern that matches sets unit_found and is cut out of the name
RECURSIVE TryPatterns(_, _)
TryPatterns(k, cleaned_name) ==
    IF k > Len(UnitPatterns)
      THEN [unit_found |-> "N/A", cleaned_name |-> cleaned_name]
    ELSE CHOOSE out \in
           {IF m.ok
              THEN [unit_found |->
                        Trim(SubSeq(cleaned_name, m.cs, m.ce - 1)),
                    cleaned_name |->
                        SubSeq(cleaned_name, 1, m.s - 1)
                           \o SubSeq(cleaned_name, m.e, Len(cleaned_name))]
              ELSE TryPatterns(k + 1, cleaned_name) :
            m \in {Captures(UnitPatterns[k], cleaned_name)}} : TRUE

\* "Remove descriptive parentheses", then "clean up extra spaces and
\* normalize"
Tidy(r) ==
    [unit_found |-> r.unit_found,
     cleaned_name |->
        ToLower(Join(Words(Trim(
            ReplaceFirst(IF r.unit_found = "N/A" THEN DescriptionRegex
                                                 ELSE NonUnitDescRegex,
                         r.cleaned_name)), ""), " "))]

\* the loop body of normalize_name_and_extract_units on one name
ExtractFromName(name) ==
    CHOOSE out \in
      {Tidy(r) : r \in {TryPatterns(1, c) :
                            c \in {ReplaceFirst(PromoRegex, name)}}} : TRUE

UnitFound(name) == ExtractFromName(name).unit_found
CleanedName(name) == ExtractFromName(name).cleaned_name

\* normalize_name_and_extract_units
NormalizeNameAndExtractUnits(fr) ==
    IF ~HasColumn(fr, "name") \/ DType(Column(fr, "name")) /= "str"
      THEN Errored(fr)
    ELSE Done(WithColumn(
            WithColumn(fr,
                StringSeries("name",
                    [i \in 1..Height(fr) |-> CleanedName(Cell(fr, "name", i))])),
            StringSeries("units_of_mass",
                [i \in 1..Height(fr) |-> UnitFound(Cell(fr, "name", i))])))

\* normalize_string_column
NormalizeStringColumn(fr, col_name) ==
    IF ~HasColumn(fr, col_name) THEN Done(fr)
    ELSE IF DType(Column(fr, col_name)) /= "str" THEN Panicked(fr)
    ELSE Done(WithColumn(fr,
            StringSeries(col_name,
                [i \in 1..Height(fr) |->
                    ToLower(Trim(Cell(fr, col_name, i)))])))

\* the length of the run of digits of str that starts at position i
RECURSIVE DigitRun(_, _)
DigitRun(str, i) ==
    IF i <= Len(str) /\ IsDigit(CharAt(str, i)) THEN 1 + DigitRun(str, i + 1)
    ELSE 0

\* the match of (\d+(?:\.\d+)?) that starts at position i, a digit
NumberAt(str, i) ==
    IF /\ i + DigitRun(str, i) <= Len(str)
       /\ CharAt(str, i + DigitRun(str, i)) = "."
       /\ DigitRun(str, i + DigitRun(str, i) + 1) > 0
      THEN SubSeq(str, i, i + DigitRun(str, i)
                             + DigitRun(str, i + DigitRun(str, i) + 1))
    ELSE SubSeq(str, i, i + DigitRun(str, i) - 1)

\* re.captures(&cleaned): the leftmost match, "" when there is no digit
FirstNumber(str) ==
    IF DigitCount(str) = 0 THEN ""
    ELSE NumberAt(str, CHOOSE i \in 1..Len(str) :
                          /\ IsDigit(CharAt(str, i))
                          /\ \A k \in 1..(i - 1) : ~IsDigit(CharAt(str, k)))

\* the closure of normalize_discount_column after `cleaned` is computed
DiscountOfCleaned(cleaned) ==
    IF DigitCount(cleaned) > 0 THEN ParsedOrNull(FirstNumber(cleaned))
    ELSE ParsedOrNull(cleaned)

\* the closure of normalize_discount_column
DiscountOf_Text(str) == [null |-> FALSE, text |-> str]
DiscountOf(str) ==
    DiscountOfCleaned(
        Trim(Remove(Remove(Remove(Remove(Remove(ToLower(str),
            "%"), "percent"), "off"), "discount"), "sale")))

\* normalize_discount_column
NormalizeDiscountColumn(fr, col_name) ==
    IF ~HasColumn(fr, col_name) THEN Done(fr)
    ELSE IF DType(Column(fr, col_name)) /= "str" THEN Panicked(fr)
    ELSE Done(WithColumn(fr,
            FloatSeries(col_name,
                [i \in 1..Height(fr) |-> DiscountOf(Cell(fr, col_name, i))])))

\* (x * 100.0).round() / 100.0 of the quotient a / b of two positive
\* numbers, in hundredths of the result
RoundedQuotient(a, b) == (2 * a * 100 + b) \div (2 * b)

\* "Discount percentage = ((MRP - Cost Price) / MRP) * 100", rounded to two
\* decimal places
DiscountPercentage_Unrounded(cost, mrp) ==
    100 * (((mrp - cost) * 100) \div mrp)
DiscountPercentage(cost, mrp) == RoundedQuotient((mrp - cost) * 100, mrp)

\* the closure of calculate_missing_discounts
BackfilledDiscount_Always(existing_discount, cost_opt, mrp_opt) ==
    IF ~cost_opt.null /\ ~mrp_opt.null
      THEN (IF mrp_opt.c > 0 /\ cost_opt.c < mrp_opt.c
              THEN Num(DiscountPercentage(cost_opt.c, mrp_opt.c))
              ELSE Num(0))
    ELSE existing_discount
BackfilledDiscount(existing_discount, cost_opt, mrp_opt) ==
    IF ~existing_discount.null THEN existing_discount
    ELSE IF ~cost_opt.null /\ ~mrp_opt.null
      THEN (IF mrp_opt.c > 0 /\ cost_opt.c < mrp_opt.c
              THEN Num(DiscountPercentage(cost_opt.c, mrp_opt.c))
              ELSE Num(0))
    ELSE Null

\* calculate_missing_discounts; `.f64()?` returns Err on a column that is
\* not a Float64 column
CalculateMissingDiscounts(fr) ==
    IF ~(HasColumn(fr, "cost_price") /\ HasColumn(fr, "mrp")
            /\ HasColumn(fr, "discount")) THEN Done(fr)
    ELSE IF \E n \in {"cost_price", "mrp", "discount"} :
                DType(Column(fr, n)) /= "f64" THEN Errored(fr)
    ELSE Done(WithColumn(fr,
            FloatSeries("discount",
                [i \in 1..Height(fr) |->
                    BackfilledDiscount(Cell(fr, "discount", i),
                                       Cell(fr, "cost_price", i),
                                       Cell(fr, "mrp", i))])))

\* the k-th statement of normalize_dataframe
NormalizeStep(k, fr) ==
    CASE k = 1 -> NormalizePriceColumn(fr, "cost_price")
      [] k = 2 -> NormalizePriceColumn(fr, "mrp")
      [] k = 3 -> NormalizeNameAndExtractUnits(fr)
      [] k = 4 -> NormalizeStringColumn(fr, "category")
      [] k = 5 -> NormalizeDiscountColumn(fr, "discount")
      [] k = 6 -> CalculateMissingDiscounts(fr)

\* the statements k..last of normalize_dataframe; `?` returns at the first
\* Err and a panic ends the run
RECURSIVE NormalizeRange(_, _, _)
NormalizeRange(k, last, res) ==
    IF k > last \/ res.status /= "ok" THEN res
    ELSE CHOOSE out \in {NormalizeRange(k + 1, last, r) :
                            r \in {NormalizeStep(k, res.frame)}} : TRUE

\* the table normalize_dataframe hands to calculate_missing_discounts
BeforeBackfill(fr) ==
    (CHOOSE out \in {NormalizeRange(1, 5, r) : r \in {Done(fr)}} : TRUE).frame

\* normalize_dataframe
NormalizeDataframe(fr) ==
    CHOOSE out \in {NormalizeRange(1, 6, r) : r \in {Done(fr)}} : TRUE

\* names of the kinds the sources deliver: a product, and what follows it
NameBases ==
    {"Kfresh Potatoes (Aalu)", "Milk", "Eggs (pack of 6)", "Oil (500ml)",
     "Atta", "Tea - 2 pieces", "Fresh  Apple"}
NameSuffixes ==
    {"", " - 3 Kg", " (800gm)", " (1 bundles)", " - 1 piece", " 1.5 kg",
     " - half dozen", " | Offer 2 kg", " (Pyaaz)"}
ProductNames == {b \o x : b \in NameBases, x \in NameSuffixes}

\* one pass of the loop body over the name name_in
ExtractUnitsCall ==
    /\ upc = "call"
    /\ extracted' = ExtractFromName(name_in)
    /\ upc' = "done"
    /\ UNCHANGED <<name_in, outsideUnits>>

InitUnits ==
    /\ method = "GET"
    /\ IdlePage
    /\ IdleFetch
    /\ IdleFlat
    /\ IdleRun
    /\ IdleClass
    /\ IdleHtml
    /\ name_in \in ProductNames
    /\ extracted = NothingExtracted
    /\ upc = "call"

NextUnits ==
    \/ ExtractUnitsCall

SpecUnits == InitUnits /\ [][NextUnits]_vars

\* normalizer.normalize_dataframe(&mut df) on the classified table
NormalizeFrame ==
    /\ flpc = "classified"
    /\ normalized' = NormalizeDataframe(classified)
    /\ flpc' = "normalized"
    /\ UNCHANGED <<json_data, df, successful_count, failed_count, batch_len,
                   batched, classified, renormalized, outsideFlat>>

\* normalize_dataframe once more, on the table the first call left
NormalizeAgain ==
    /\ flpc = "normalized"
    /\ normalized.status = "ok"
    /\ renormalized' = NormalizeDataframe(normalized.frame)
    /\ flpc' = "renormalized"
    /\ UNCHANGED <<json_data, df, successful_count, failed_count, batch_len,
                   batched, classified, normalized, outsideFlat>>

InitFlatten ==
    /\ method = "GET"
    /\ IdlePage
    /\ IdleFetch
    /\ IdleRun
    /\ IdleUnits
    /\ IdleHtml
    /\ IdleClass
    /\ json_data \in Batches
    /\ df = <<>>
    /\ successful_count = 0
    /\ failed_count = 0
    /\ flpc = "input"
    /\ batch_len = 0
    /\ batched = "none"
    /\ classified = <<>>
    /\ normalized = [status |-> "none", frame |-> <<>>]
    /\ renormalized = [status |-> "none", frame |-> <<>>]

NextFlatten ==
    \/ FlattenAll
    \/ FlattenBatched
    \/ ClassifyFrame
    \/ NormalizeFrame
    \/ NormalizeAgain

SpecFlatten == InitFlatten /\ [][NextFlatten]_vars

\* ----------------------------------------------------------- HtmlFetcher

ScrapedOk(products) == [ok |-> TRUE, products |-> products, returned |-> TRUE]

\* what extract_products_from_html can give for page p of category c; it
\* returns Ok always, with no products when both extractions find none
PageProducts(c, p) ==
    {<<>>,
     <<[category |-> c, page |-> p, item |-> 1]>>,
     <<[category |-> c, page |-> p, item |-> 1],
       [category |-> c, page |-> p, item |-> 2]>>}

\* `if attempts < max_retries` after a failed attempt: back off and retry
RetryAfter_Always(n) == TRUE
RetryAfter(n) == n < max_retries

\* scrape_category leaves its loop and returns Ok(all_products)
ScrapeReturns(products) ==
    /\ scrape_result' = ScrapedOk(products)
    /\ hpc' = "scraped"

\* fetch_all_categories, head of `for (category_name, category_config)`
NextCategory ==
    /\ hpc = "categories"
    /\ IF hcat > html_categories
         THEN /\ html_result' = ScrapedOk(html_all_products)
              /\ hpc' = "returned"
              /\ UNCHANGED <<hpage, scraped, page_log, scrape_result>>
         ELSE /\ hpage' = 1
              /\ scraped' = <<>>
              /\ page_log' = <<>>
              /\ scrape_result' = NotReturned
              /\ hpc' = "pages"
              /\ UNCHANGED html_result
    /\ UNCHANGED <<html_categories, max_pages_per_category, hcat,
                   html_all_products, category_delays, attempts, fetches,
                   backoffs, error_of, page_fetch, outsideHtml>>

\* scrape_category, head of `for page in 1..=max_pages`; inside the range
\* scrape_page enters fetch_page_with_retry
ScrapePage ==
    /\ hpc = "pages"
    /\ IF hpage > max_pages_per_category
         THEN /\ ScrapeReturns(scraped)
              /\ UNCHANGED <<attempts, fetches, backoffs, error_of, page_fetch>>
         ELSE /\ attempts' = 0
              /\ fetches' = 0
              /\ backoffs' = 0
              /\ error_of' = 0
              /\ page_fetch' = "none"
              /\ hpc' = "attempt"
              /\ UNCHANGED scrape_result
    /\ UNCHANGED <<html_categories, max_pages_per_category, hcat,
                   html_all_products, category_delays, hpage, scraped,
                   page_log, html_result, outsideHtml>>

\* fetch_page_smart returns Ok(html): the retry returns it, and scrape_page
\* extracts the products; no products end the pagination
AttemptOk ==
    /\ hpc = "attempt"
    /\ fetches' = fetches + 1
    /\ page_fetch' = "Ok"
    /\ \E products \in PageProducts(hcat, hpage) :
          /\ page_log' = Append(page_log, [fetch |-> "Ok", products |-> products])
          /\ IF products = <<>>
               THEN ScrapeReturns(scraped) /\ UNCHANGED scraped
               ELSE /\ scraped' = scraped \o products
                    /\ hpc' = "page_delay"
                    /\ UNCHANGED scrape_result
    /\ UNCHANGED <<html_categories, max_pages_per_category, hcat,
                   html_all_products, category_delays, hpage, attempts,
                   backoffs, error_of, html_result, outsideHtml>>

\* the retry gives up with the error err_attempt stands for (0: the error
\* built after the while loop); scrape_category warns and breaks
GiveUp(err_attempt) ==
    /\ error_of' = err_attempt
    /\ page_fetch' = "Err"
    /\ page_log' = Append(page_log, [fetch |-> "Err", products |-> <<>>])
    /\ ScrapeReturns(scraped)

\* fetch_page_smart returns Err(e)
AttemptFail ==
    /\ hpc = "attempt"
    /\ fetches' = fetches + 1
    /\ attempts' = attempts + 1
    /\ IF RetryAfter(attempts + 1)
         THEN /\ hpc' = "backoff"
              /\ UNCHANGED <<error_of, page_fetch, page_log, scrape_result>>
         ELSE GiveUp(attempts + 1)
    /\ UNCHANGED <<html_categories, max_pages_per_category, hcat,
                   html_all_products, category_delays, hpage, scraped,
                   backoffs, html_result, outsideHtml>>

\* the backoff sleep ends; then the test of `while attempts < max_retries`
Backoff ==
    /\ hpc = "backoff"
    /\ backoffs' = backoffs + 1
    /\ IF attempts < max_retries
         THEN /\ hpc' = "attempt"
              /\ UNCHANGED <<error_of, page_fetch, page_log, scrape_result>>
         ELSE GiveUp(0)
    /\ UNCHANGED <<html_categories, max_pages_per_category, hcat,
                   html_all_products, category_delays, hpage, scraped,
                   attempts, fetches, html_result, outsideHtml>>

\* "rate limiting between pages", then the next page
PageDelay ==
    /\ hpc = "page_delay"
    /\ hpage' = hpage + 1
    /\ hpc' = "pages"
    /\ UNCHANGED <<html_categories, max_pages_per_category, hcat,
                   html_all_products, category_delays, scraped, page_log,
                   attempts, fetches, backoffs, error_of, page_fetch,
                   scrape_result, html_result, outsideHtml>>

\* the match on scrape_category's value: Ok extends all_products and goes
\* on to the delay, Err is logged and `continue` skips the delay
AfterScrape ==
    /\ hpc = "scraped"
    /\ IF scrape_result.ok
         THEN /\ html_all_products' =
                    html_all_products \o scrape_result.products
              /\ hpc' = "category_delay"
              /\ UNCHANGED hcat
         ELSE /\ hcat' = hcat + 1
              /\ hpc' = "categories"
              /\ UNCHANGED html_all_products
    /\ UNCHANGED <<html_categories, max_pages_per_category, category_delays,
                   hpage, scraped, page_log, attempts, fetches, backoffs,
                   error_of, page_fetch, scrape_result, html_result, outsideHtml>>

\* "rate limiting between categories", then the next category
CategoryDelay ==
    /\ hpc = "category_delay"
    /\ category_delays' = category_delays + 1
    /\ hcat' = hcat + 1
    /\ hpc' = "categories"
    /\ UNCHANGED <<html_categories, max_pages_per_category,
                   html_all_products, hpage, scraped, page_log, attempts,
                   fetches, backoffs, error_of, page_fetch, scrape_result,
                   html_result, outsideHtml>>

InitHtml ==
    /\ method = "GET"
    /\ IdlePage
    /\ IdleFetch
    /\ IdleFlat
    /\ IdleRun
    /\ IdleClass
    /\ IdleUnits
    /\ html_categories \in 1..MaxHtmlCategories
    /\ max_pages_per_category \in 0..MaxHtmlPages
    /\ hcat = 1
    /\ html_all_products = <<>>
    /\ category_delays = 0
    /\ hpage = 0
    /\ scraped = <<>>
    /\ page_log = <<>>
    /\ attempts = 0
    /\ fetches = 0
    /\ backoffs = 0
    /\ error_of = 0
    /\ page_fetch = "none"
    /\ scrape_result = NotReturned
    /\ html_result = NotReturned
    /\ hpc = "categories"

NextHtml ==
    \/ NextCategory
    \/ ScrapePage
    \/ AttemptOk
    \/ AttemptFail
    \/ Backoff
    \/ PageDelay
    \/ AfterScrape
    \/ CategoryDelay

SpecHtml == InitHtml /\ [][NextHtml]_vars

\* ------------------------------------------------------------------ main

\* `let sources = vec![...]`: (name, type)
Sources ==
    <<[name |-> "krave_mart", type |-> "json"],
      [name |-> "bazaar_app", type |-> "json"],
      [name |-> "dealcart", type |-> "json"],
      [name |-> "pandamart", type |-> "json"],
      [name |-> "naheed", type |-> "html"]>>

RECURSIVE SelectSeq2(_, _)
SelectSeq2(q, name) ==
    IF q = <<>> THEN <<>>
    ELSE (IF Head(q).name = name THEN <<Head(q)>> ELSE <<>>)
         \o SelectSeq2(Tail(q), name)

\* sources_to_process: the sources named by --source, or all of them
SourcesToProcess(specific_source) ==
    IF specific_source = "" THEN Sources ELSE SelectSeq2(Sources, specific_source)

\* `if total_products <= 500`: the largest record count flattened at once
BatchLimit == 500

\* smallest record count that is flattened in batches
BatchedFrom == BatchLimit + 1

\* "Determine batch size based on dataset size"
BatchSize_Exclusive(total) ==
    IF total < BatchLimit THEN total
    ELSE IF total < 5000 THEN 500
    ELSE IF total < 50000 THEN 2000
    ELSE 5000
BatchSize(total) ==
    IF total <= BatchLimit THEN total
    ELSE IF total <= 5000 THEN 500
    ELSE IF total <= 50000 THEN 2000
    ELSE 5000

\* process_html_source: `if total_products > 10000 { 1000 } else { total_products }`
HtmlBatchSize(total) == IF total > 10000 THEN 1000 ELSE total

\* record counts a source may deliver
FetchCounts ==
    (0..MaxRecords) \cup {BatchLimit, BatchedFrom, 5000, 5001, 50000, 50001}

\* the list of n records that came from source name
RecordList_Truncated(name, n) == [origin |-> name, len |-> n - 1]
RecordList(name, n) == [origin |-> name, len |-> n]

Current == sources_to_process[src]

\* which function main calls for the current source
Mode == IF from_storage THEN "storage" ELSE Current.type

\* `if products_count == 0 { return Ok(0) }`
NothingFetched_Never(n) == FALSE
NothingFetched(n) == n = 0

\* the running process_* call returns r
Return(r) ==
    /\ rpc' = "returned"
    /\ stage' = "none"
    /\ ret' = r
    /\ okReturns' = IF r.ok THEN okReturns + 1 ELSE okReturns

Ok(n) == [ok |-> TRUE, count |-> n]
Err == [ok |-> FALSE, count |-> 0]

\* the call moves on to stage next, having completed the stage it was at
Advance(next) ==
    /\ stage' = next
    /\ stagesRun' = Append(stagesRun, stage)
    /\ UNCHANGED <<rpc, ret, okReturns>>

\* a stage failed: the `?` returns the error
Fail ==
    /\ Return(Err)
    /\ UNCHANGED stagesRun

mainVars == <<from_storage, sources_to_process, src, successful_sources,
              total_products, attempted, mainResult>>

\* MinioConfig::from_file, MinioStorage::from_config or ensure_bucket fails
BootFail ==
    /\ rpc = "boot"
    /\ rpc' = "exit"
    /\ mainResult' = "Err"
    /\ UNCHANGED <<method, from_storage, sources_to_process, src, stage,
                   products_count, raw_total, batch_size,
                   flatten_path, puts, stagesRun,
                   ret, successful_sources, total_products, okReturns,
                   attempted, outsideRun>>

\* the storage is initialised; an unknown --source ends the run with Ok(())
BootOk ==
    /\ rpc = "boot"
    /\ IF sources_to_process = <<>>
         THEN rpc' = "exit" /\ mainResult' = "Ok"
         ELSE rpc' = "loop" /\ UNCHANGED mainResult
    /\ UNCHANGED <<method, from_storage, sources_to_process, src, stage,
                   products_count, raw_total, batch_size,
                   flatten_path, puts, stagesRun,
                   ret, successful_sources, total_products, okReturns,
                   attempted, outsideRun>>

\* `if !Path::new(config_path).exists() { continue }`
SkipMissingConfig ==
    /\ rpc = "loop"
    /\ src <= Len(sources_to_process)
    /\ ~from_storage
    /\ attempted' = Append(attempted, Current.name)
    /\ src' = src + 1
    /\ UNCHANGED <<method, from_storage, sources_to_process, rpc, stage,
                   products_count, raw_total, batch_size,
                   flatten_path, puts, stagesRun,
                   ret, successful_sources, total_products, okReturns,
                   mainResult, outsideRun>>

\* main calls process_source_from_storage, process_json_source or
\* process_html_source for the current source
BeginSource ==
    /\ rpc = "loop"
    /\ src <= Len(sources_to_process)
    /\ attempted' = Append(attempted, Current.name)
    /\ rpc' = "source"
    /\ stage' = IF from_storage THEN "info" ELSE "config"
    /\ products_count' = -1
    /\ raw_total' = -1
    /\ batch_size' = -1
    /\ flatten_path' = "none"
    /\ puts' = <<>>
    /\ stagesRun' = <<>>
    /\ ret' = "none"
    /\ UNCHANGED <<method, from_storage, sources_to_process, src,
                   successful_sources, total_products, okReturns, mainResult,
                   outsideRun>>

\* ApiConfig::from_file / HtmlConfig::from_file
LoadConfig ==
    /\ rpc = "source"
    /\ stage = "config"
    /\ \/ /\ Advance("fetch")
          /\ method' \in ConfigMethods
       \/ /\ Fail
          /\ UNCHANGED method
    /\ UNCHANGED <<mainVars, products_count, raw_total, batch_size,
                   flatten_path, puts,
                   outsideRun>>

\* what fetch_all_categories may return for a config whose method is m
FetchReturns(m, type) ==
    IF type = "json" /\ ~Supported(m) THEN {Err}
    ELSE {Ok(n) : n \in FetchCounts}

\* UnifiedFetcher::new / HtmlFetcher::new, then fetch_all_categories, then
\* the zero check
Fetch ==
    /\ rpc = "source"
    /\ stage = "fetch"
    /\ \/ /\ Fail
          /\ UNCHANGED products_count
       \/ \E r \in FetchReturns(method, Current.type) :
             IF ~r.ok
               THEN Fail /\ UNCHANGED products_count
             ELSE /\ products_count' = r.count
                  /\ IF NothingFetched(r.count)
                       THEN /\ Return(Ok(0))
                            /\ stagesRun' = Append(stagesRun, stage)
                       ELSE Advance(IF Current.type = "html" THEN "convert"
                                                             ELSE "store_raw")
    /\ UNCHANGED <<method, mainVars, raw_total, batch_size,
                   flatten_path, puts, outsideRun>>

\* HtmlProcessor::process_scraped_products: products that do not convert
\* are dropped
Convert ==
    /\ rpc = "source"
    /\ stage = "convert"
    /\ \/ /\ Fail
          /\ UNCHANGED raw_total
       \/ /\ raw_total' \in {products_count, products_count - 1}
          /\ Advance("store_raw")
    /\ UNCHANGED <<method, mainVars, products_count, batch_size,
                   flatten_path, puts,
                   outsideRun>>

\* serde_json::to_string and MinioStorage::store_raw_json
StoreRaw ==
    /\ rpc = "source"
    /\ stage = "store_raw"
    /\ \/ /\ Fail
          /\ UNCHANGED <<puts, batch_size, flatten_path>>
       \/ /\ puts' = Append(puts,
                 [kind |-> "raw", source |-> Current.name,
                  data |-> RecordList(Current.name,
                              IF Mode = "html" THEN raw_total
                                               ELSE products_count)])
          /\ IF Mode = "html"
               THEN /\ batch_size' = HtmlBatchSize(raw_total)
                    /\ UNCHANGED flatten_path
                    /\ Advance("flatten")
               ELSE /\ UNCHANGED <<batch_size, flatten_path>>
                    /\ Advance("info")
    /\ UNCHANGED <<method, mainVars, products_count, raw_total, outsideRun>>

\* the record count of the latest raw file of the current source: the one
\* this call has just written, or (from storage) whatever the bucket holds
LatestCounts ==
    IF from_storage THEN FetchCounts ELSE {puts[Len(puts)].data.len}

\* MinioStorage::get_latest_raw_data_info, the zero check of
\* process_source_from_storage, and the choice of the batch size
RawInfo ==
    /\ rpc = "source"
    /\ stage = "info"
    /\ \/ /\ Fail
          /\ UNCHANGED <<raw_total, batch_size, flatten_path>>
       \/ \E n \in LatestCounts :
             /\ raw_total' = n
             /\ IF from_storage /\ NothingFetched(n)
                  THEN /\ Return(Ok(0))
                       /\ stagesRun' = Append(stagesRun, stage)
                       /\ UNCHANGED <<batch_size, flatten_path>>
                  ELSE /\ batch_size' = BatchSize(n)
                       /\ UNCHANGED flatten_path
                       /\ Advance("flatten")
    /\ UNCHANGED <<method, mainVars, products_count, puts, outsideRun>>

\* `if batch_size >= total_products`: the flattening called.  Both branches
\* of process_html_source call flatten_to_dataframe on the list in memory.
FlattenPath(mode, size, total) ==
    IF mode = "html" \/ size >= total THEN "whole" ELSE "batched"

\* load_latest_raw_data + flatten_to_dataframe, or
\* stream_latest_raw_data_batched + flatten_to_dataframe_batched
Flatten ==
    /\ rpc = "source"
    /\ stage = "flatten"
    /\ flatten_path' = FlattenPath(Mode, batch_size, raw_total)
    /\ \/ Fail
       \/ Advance("classify")
    /\ UNCHANGED <<method, mainVars, products_count, raw_total, batch_size,
                   puts, outsideRun>>

\* FieldClassifier::map_to_canonical_schema
Classify ==
    /\ rpc = "source"
    /\ stage = "classify"
    /\ \/ Fail
       \/ Advance("normalize")
    /\ UNCHANGED <<method, mainVars, products_count, raw_total, batch_size,
                   flatten_path,
                   puts, outsideRun>>

\* RuleNormalizer::normalize_dataframe
Normalize ==
    /\ rpc = "source"
    /\ stage = "normalize"
    /\ \/ Fail
       \/ Advance("store_clean")
    /\ UNCHANGED <<method, mainVars, products_count, raw_total, batch_size,
                   flatten_path,
                   puts, outsideRun>>

\* ParquetWriter::finish and MinioStorage::store_parquet, then the return
StoreClean ==
    /\ rpc = "source"
    /\ stage = "store_clean"
    /\ \/ /\ Fail
          /\ UNCHANGED puts
       \/ /\ puts' = Append(puts,
                 [kind |-> "clean",
                  source |-> IF from_storage THEN Current.name \o "_from_storage"
                                             ELSE Current.name,
                  data |-> RecordList(Current.name, raw_total)])
          /\ Return(Ok(IF from_storage THEN raw_total ELSE products_count))
          /\ stagesRun' = Append(stagesRun, stage)
    /\ UNCHANGED <<method, mainVars, products_count, raw_total, batch_size,
                   flatten_path,
                   outsideRun>>

\* what main's loop does with the value a process_* call returned:
\* Ok counts the source, Err is logged; either way the loop goes on
AfterSource_Abort(r) == [count |-> r.ok, continue |-> r.ok]
AfterSource(r) == [count |-> r.ok, continue |-> TRUE]

\* the match arms around the process_* call
SourceReturned ==
    /\ rpc = "returned"
    /\ LET a == AfterSource(ret) IN
       /\ successful_sources' =
              IF a.count THEN successful_sources + 1 ELSE successful_sources
       /\ total_products' =
              IF a.count THEN total_products + ret.count ELSE total_products
       /\ IF a.continue
            THEN rpc' = "loop" /\ src' = src + 1 /\ UNCHANGED mainResult
            ELSE rpc' = "exit" /\ mainResult' = "Err" /\ UNCHANGED src
    /\ UNCHANGED <<method, from_storage, sources_to_process, stage,
                   products_count, raw_total, batch_size,
                   flatten_path, puts, stagesRun,
                   ret, okReturns, attempted, outsideRun>>

\* the loop is over: the summary, then Ok(())
MainReturn ==
    /\ rpc = "loop"
    /\ src > Len(sources_to_process)
    /\ rpc' = "exit"
    /\ mainResult' = "Ok"
    /\ UNCHANGED <<method, from_storage, sources_to_process, src, stage,
                   products_count, raw_total, batch_size,
                   flatten_path, puts, stagesRun,
                   ret, successful_sources, total_products, okReturns,
                   attempted, outsideRun>>

\* values of the --source argument ("" when absent)
SourceArgs == {""} \cup {Sources[i].name : i \in 1..Len(Sources)} \cup {"nowhere"}

\* main after argument parsing
InitRun ==
    /\ method = "GET"
    /\ IdlePage
    /\ IdleFetch
    /\ IdleFlat
    /\ IdleClass
    /\ IdleUnits
    /\ IdleHtml
    /\ from_storage \in BOOLEAN
    /\ \E a \in SourceArgs : sources_to_process = SourcesToProcess(a)
    /\ src = 1
    /\ rpc = "boot"
    /\ stage = "none"
    /\ products_count = -1
    /\ raw_total = -1
    /\ batch_size = -1
    /\ flatten_path = "none"
    /\ puts = <<>>
    /\ stagesRun = <<>>
    /\ ret = "none"
    /\ successful_sources = 0
    /\ total_products = 0
    /\ okReturns = 0
    /\ attempted = <<>>
    /\ mainResult = "none"

NextRun ==
    \/ BootFail
    \/ BootOk
    \/ SkipMissingConfig
    \/ BeginSource
    \/ LoadConfig
    \/ Fetch
    \/ Convert
    \/ StoreRaw
    \/ RawInfo
    \/ Flatten
    \/ Classify
    \/ Normalize
    \/ StoreClean
    \/ SourceReturned
    \/ MainReturn

SpecRun == InitRun /\ [][NextRun]_vars

\* ------------------------------------------------- claims: pagination loop

IsPrefix(s, t) == Len(s) <= Len(t) /\ \A i \in 1..Len(s) : s[i] = t[i]

\* the items of the first n catalog pages, in page order
FirstPages(m, n) == [i \in 1..n |-> StartPage(m) + i - 1]

\* C1: whatever outcomes the source chooses, a paginated category fetch
\* terminates, and it never issues more than 50 page requests.
C1_TerminatesWithinCap == <>(pc = "done") /\ [](requests <= max_pages)

C1_Witness ==
    /\ pc = "done"
    /\ requests = max_pages
    /\ failures > 0
    /\ exhausted

\* C2: with no failed request, a catalog of N <= 48 non-empty pages followed
\* by empty pages is returned as exactly the concatenation of the N pages in
\* page order, after exactly N + 2 page requests.
C2_ExactUnion ==
    (pc = "done" /\ failures = 0 /\ held <= max_pages - 2)
        => /\ all_products = FirstPages(method, held)
           /\ requests = held + 2

C2_Witness ==
    /\ pc = "done"
    /\ failures = 0
    /\ held = 3
    /\ requests = 5
    /\ all_products = FirstPages(method, 3)

\* C3: a paginated fetch never returns an error, and the items appended so
\* far stay in the list, in place, through every later step (failures
\* included).
C3_FailureAbsorbed ==
    /\ [](returned /= "Err")
    /\ [][IsPrefix(all_products, all_products')]_vars

C3_Witness ==
    /\ pc = "done"
    /\ returned = "Ok"
    /\ Failed(lastOutcome)
    /\ failures = 2
    /\ Len(all_products) > 0

\* C4 (as claimed): when no two consecutive requests fail, a catalog of
\* N <= 40 non-empty pages is returned with the items of every one of its
\* pages.
C4_NoSilentTruncation ==
    (pc = "done" /\ exhausted /\ ~consecFail /\ held <= 40)
        => \A i \in 1..held :
              \E j \in 1..Len(all_products) :
                 all_products[j] = FirstPages(method, held)[i]

\* C5 (as claimed): a fetch ends with the counter at 2 or with the page index
\* above 50, and a source that never runs out is asked for page index 50 in
\* both modes.
C5_Original ==
    pc = "done"
        => /\ \/ consecutive_empty_pages = max_consecutive_empty
              \/ page > max_pages
           /\ Len(all_products) = requests => lastRequested = max_pages

\* C5 (amended): a fetch ends with the counter at 2 or after exactly 50 page
\* requests, the page index then standing 50 beyond the start index (51 in
\* GET mode, 50 in POST mode); a source that never runs out is asked last for
\* page index 50 in GET mode and 49 in POST mode.
C5_EndsByThresholdOrCap ==
    pc = "done"
        => /\ \/ consecutive_empty_pages = max_consecutive_empty
              \/ /\ requests = max_pages
                 /\ page = StartPage(method) + max_pages
           /\ Len(all_products) = requests
                 => lastRequested = IF method = "GET" THEN max_pages
                                                      ELSE max_pages - 1

C5_Witness ==
    /\ pc = "done"
    /\ method = "POST"
    /\ Len(all_products) = requests
    /\ page = max_pages
    /\ lastRequested = max_pages - 1

\* C22: the consecutive-empty counter equals the number of page attempts
\* since the last non-empty page, empty and failed attempts alike; it is
\* below 2 whenever the loop can issue a request, and the fetch has stopped
\* as soon as two attempts in a row yielded no items.
C22_CounterCountsAttempts ==
    /\ consecutive_empty_pages = sinceNonEmpty
    /\ pc /= "done" => sinceNonEmpty < max_consecutive_empty
    /\ sinceNonEmpty >= max_consecutive_empty
          => /\ pc = "done"
             /\ sinceNonEmpty = max_consecutive_empty
             /\ lastOutcome /= "items"

\* a failed request followed by an empty page, after pages with items
C22_Witness ==
    /\ pc = "done"
    /\ held = 2
    /\ failures = 1
    /\ lastOutcome = "empty"
    /\ consecutive_empty_pages = 2
    /\ requests = 4

\* C23: a page request is issued only when every earlier request of the
\* fetch has been followed by its 500 ms delay, and no further delay has
\* occurred: exactly one delay lies between two consecutive requests.
C23_OneDelayBetweenRequests ==
    [][requests' /= requests
          => requests' = requests + 1 /\ sleeps = requests /\ sleeps' = sleeps]_vars

\* the fourth request, after non-empty pages and a failure, finds an empty
\* page; its delay is pending
C23_Witness ==
    /\ requests = 4
    /\ sleeps = 3
    /\ held = 3
    /\ failures = 1
    /\ lastOutcome = "empty"
    /\ pc = "sleep"

\* -------------------------------------------- claims: fetch_all_categories

\* C6: with a method other than GET and POST, fetch_all_categories returns an
\* error, issues no network request and returns no records; with GET or POST
\* it returns a success value whatever its categories' fetches returned.
C6_UnsupportedMethodOnly ==
    fpc = "returned"
        => IF Supported(method)
             THEN fetchResult.ok
             ELSE /\ ~fetchResult.ok
                  /\ fetchResult.data = <<>>
                  /\ net_requests = 0

C6_Witness ==
    /\ fpc = "returned"
    /\ method = "GET"
    /\ pagination = "none"
    /\ categories = 2
    /\ catLog = <<FALSE, TRUE>>
    /\ net_requests = 2
    /\ fetchResult = [ok |-> TRUE, data |-> Tag(2, SingleItems)]

\* the records of the categories from position c on whose fetch returned Ok,
\* in category order
RECURSIVE SuccessfulRecords(_, _)
SuccessfulRecords(results, c) ==
    IF c > Len(results) THEN <<>>
    ELSE (IF results[c].ok THEN Tag(c, results[c].products) ELSE <<>>)
         \o SuccessfulRecords(results, c + 1)

RECURSIVE RequestsOf(_, _)
RequestsOf(results, c) ==
    IF c > Len(results) THEN 0
    ELSE results[c].requests + RequestsOf(results, c + 1)

\* C24: with GET or POST, the category at position cat is fetched only when
\* every earlier category's fetch has returned; all requests so far belong
\* to returned fetches; the records gathered are those of the categories
\* that returned Ok, in category order; and the call returns them after
\* every category was fetched, whatever the fetches returned.
C24_SequentialCategories ==
    Supported(method) /\ fpc /= "idle"
        => /\ Len(catResults) = cat - 1
           /\ net_requests = RequestsOf(catResults, 1)
           /\ all_data = SuccessfulRecords(catResults, 1)
           /\ fpc = "returned"
                 => /\ Len(catResults) = categories
                    /\ fetchResult = [ok |-> TRUE, data |-> all_data]

\* the first category's fetch returned Err, the second one Ok
C24_Witness ==
    /\ fpc = "returned"
    /\ categories = 2
    /\ Len(catResults) = 2
    /\ ~catResults[1].ok
    /\ catResults[2].ok
    /\ catResults[2].products /= <<>>
    /\ fetchResult.data = Tag(2, catResults[2].products)

\* C26 (as claimed): with pagination type "none" every category gets exactly
\* one request, a failed request makes its category contribute nothing, and
\* the call returns the items of the responses that arrived.
C26_SingleShot ==
    Supported(method) /\ pagination = "none" /\ fpc = "returned"
        => /\ net_requests = categories
           /\ \A c \in 1..Len(catResults) :
                 /\ catResults[c].requests = 1
                 /\ catResults[c].products \in {<<>>, SingleItems}
           /\ fetchResult = [ok |-> TRUE,
                             data |-> SuccessfulRecords(catResults, 1)]

\* ------------------------------------------------------ claims: Flattener

\* the cell of column col in row i

IsNonEmptyStr(v) == v.t = "str" /\ v.s /= ""

\* the claimed notion of a resolvable product_id (numeric says which
\* product_id values count as numeric) and of a non-empty name
HasProductId(item, numeric(_)) ==
    \/ numeric(Get(item, "product_id"))
    \/ Get(item, "productID").t = "str"
    \/ IsNonEmptyStr(Get(item, "sku"))
    \/ IsNonEmptyStr(Get(item, "id"))
    \/ IsNonEmptyStr(Get(item, "variantTitleSlug"))

HasName(item) ==
    \/ IsNonEmptyStr(Get(item, "name"))
    \/ IsNonEmptyStr(Get(item, "title"))
    \/ IsNonEmptyStr(Get(item, "productName"))

AnyNumber(v) == v.t = "num"
NonNegativeInteger(v) == v.t = "num" /\ v.k = "u64"

Complete(items) ==
    {i \in 1..Len(items) :
        HasProductId(items[i], AnyNumber) /\ HasName(items[i])}

\* C9 (as claimed): a record without a resolvable product_id or without a
\* non-empty name is left out of the flattened table, every other record
\* yields exactly one row, and the excluded count is input minus output.
C9_IncompleteExcluded ==
    flpc = "flat"
        => /\ Height(df) = Cardinality(Complete(json_data))
           /\ failed_count = Len(json_data) - Height(df)

\* the value the claimed chain resolves: the first usable entry among
\* numeric product_id, string productID, non-empty sku, id, variantTitleSlug
ClaimedProductId(item, numeric(_)) ==
    IF numeric(Get(item, "product_id")) THEN FormatF64(Get(item, "product_id").c)
    ELSE IF Get(item, "productID").t = "str" THEN Get(item, "productID").s
    ELSE IF IsNonEmptyStr(Get(item, "sku")) THEN Get(item, "sku").s
    ELSE IF IsNonEmptyStr(Get(item, "id")) THEN Get(item, "id").s
    ELSE Get(item, "variantTitleSlug").s

\* C10 (as claimed): product_id is the value of the first usable entry of
\* numeric product_id, string productID, non-empty sku, non-empty id,
\* non-empty variantTitleSlug.
C10_Original ==
    (flpc = "flat" /\ Height(df) = Len(json_data))
        => \A i \in 1..Len(json_data) :
              HasProductId(json_data[i], AnyNumber)
                 => Cell(df, "product_id", i)
                       = ClaimedProductId(json_data[i], AnyNumber)

\* C10 (amended): as claimed, with "numeric product_id" read as a product_id
\* that is a non-negative integer JSON number; a negative or fractional
\* product_id is not usable and the chain moves on to productID.
C10_IdentifierChain ==
    (flpc = "flat" /\ Height(df) = Len(json_data))
        => \A i \in 1..Len(json_data) :
              HasProductId(json_data[i], NonNegativeInteger)
                 => Cell(df, "product_id", i)
                       = ClaimedProductId(json_data[i], NonNegativeInteger)

C10_Witness ==
    /\ flpc = "flat"
    /\ Len(json_data) = 1
    /\ Get(json_data[1], "product_id") = JNum("i64", -700)
    /\ Get(json_data[1], "productID") = None
    /\ Get(json_data[1], "sku") = JStr("X")
    /\ Get(json_data[1], "id") = JStr("I1")
    /\ Cell(df, "product_id", 1) = "X"

\* a chain entry that holds a JSON number or a float-parsable string
Usable(v) == v.t = "num" \/ (v.t = "str" /\ ParseF64(v.s).ok)

\* its value: a number keeps its value, a string is parsed as a float; an
\* integral result renders without a trailing decimal
Rendered(v) == IF v.t = "num" THEN FormatF64(v.c) ELSE FormatF64(ParseF64(v.s).c)

\* the value of the first usable entry, "" when there is none
RECURSIVE FirstUsable(_)
FirstUsable(entries) ==
    IF entries = <<>> THEN ""
    ELSE IF Usable(entries[1]) THEN Rendered(entries[1])
    ELSE FirstUsable(Tail(entries))

CostEntries(item) ==
    <<Get(item, "cost_price"), Get(item, "special_price"),
      Get(item, "discountedPrice"), Get(item, "discounted_price"),
      Get(item, "price"), FirstGet(item, "groupRanges", "discountedPrice")>>

MrpEntries(item) ==
    <<Get(item, "mrp"), Get(item, "product_price"), Get(item, "actualPrice"),
      Get(item, "actual_price"), Get(item, "originalPrice"),
      Get(item, "original_price"), FirstGet(item, "inventories", "dcImsMrp")>>

\* C11 (as claimed): cost_price and mrp are the value of the first entry of
\* their chain that holds a JSON number or a float-parsable string, the
\* nested last entry included; with no usable entry the field is unset.
C11_PriceChains ==
    flpc = "flat"
        => \A i \in 1..Len(json_data) :
              /\ Cell(df, "cost_price", i) = FirstUsable(CostEntries(json_data[i]))
              /\ Cell(df, "mrp", i) = FirstUsable(MrpEntries(json_data[i]))

\* the first non-empty text of a sequence, "" when there is none
RECURSIVE FirstNonEmpty(_)
FirstNonEmpty(texts) ==
    IF texts = <<>> THEN ""
    ELSE IF texts[1] /= "" THEN texts[1]
    ELSE FirstNonEmpty(Tail(texts))

\* what each entry of the category chain yields, "" when it yields nothing
CategoryEntries(item) ==
    <<IF IsArray(Get(item, "categories"))
        THEN Join(CategoryNames(Get(item, "categories").a), ", ") ELSE "",
      IF IsArray(Get(item, "productCategory"))
        THEN Join(ProductCategoryNames(Get(item, "productCategory").a), ", ")
        ELSE "",
      GetString(item, "category_section"),
      GetString(item, "category"),
      GetString(item, "categoryName"),
      GetString(item, "category_name")>>

\* C12 (as claimed): category_name is what the first chain entry that yields
\* a non-empty value yields; an earlier entry that is present but yields
\* nothing does not stop the later ones from being tried.
C12_CategoryChain ==
    flpc = "flat"
        => \A i \in 1..Len(json_data) :
              Cell(df, "category_name", i)
                 = FirstNonEmpty(CategoryEntries(json_data[i]))

\* C13: for every list of raw records and every chunk size >= 1, flattening
\* the chunks in order and stacking the results succeeds and gives the same
\* columns and the same rows in the same order as flattening the whole
\* list at once.
C13_ChunkingKeepsContent ==
    flpc = "batched" => batched = [ok |-> TRUE, frame |-> df]

C13_Witness ==
    /\ flpc = "batched"
    /\ batch_len = 2
    /\ Len(json_data) = 3
    /\ Height(df) = 3
    /\ Cell(df, "product_id", 1) = "1"
    /\ Cell(df, "product_id", 2) = "X"
    /\ Cell(df, "product_id", 3) = "P9"
    /\ batched.ok
    /\ Cell(batched.frame, "product_id", 3) = "P9"

\* ----------------------------------------------------- claims: Classifier

\* C16: for every column name whose normalized form equals a normalized
\* alias, classify_field returns that alias's canonical target, whatever the
\* iteration order of the alias table, the substring matches and the sample
\* values.
C16_ExactMatchWins ==
    cpc = "done"
        => \A m \in FieldMappings :
              NormalizeFieldName(m.pattern) = NormalizeFieldName(field_name)
                 => classification = m.canonical

C16_Witness ==
    /\ cpc = "done"
    /\ field_name = "sku_percent_off"
    /\ sample_values = <<"25% off">>
    /\ "sku" \in FuzzyMatches(NormalizeFieldName(field_name))
    /\ classification = "discount"

\* the class the stated order gives the lower-cased first sample: currency
\* symbol or decimal with digits, then % / "off" / a number <= 100, then two
\* or more alphabetic words, then a short alphabetic string, else none
StatedSampleClass(value) ==
    IF Contains(value, "$") \/ (Contains(value, ".") /\ DigitCount(value) > 0)
      THEN "cost_price"
    ELSE IF \/ Contains(value, "%")
            \/ Contains(value, "off")
            \/ ParseF64(value).ok /\ ParseF64(value).c <= 100 * 100
      THEN "discount"
    ELSE IF AllAlphaOrSpace(value) /\ WordCount(value, FALSE) >= 2 THEN "name"
    ELSE IF AllAlphaOrSpace(value) /\ Len(value) < 50 THEN "category"
    ELSE ""

\* the column name matches no alias, exactly or by substring, and no name
\* heuristic, and there is a first sample
ContentDecides ==
    /\ ExactMatches(NormalizeFieldName(field_name)) = {}
    /\ FuzzyMatches(NormalizeFieldName(field_name)) = {}
    /\ NameClass(ToLower(field_name)) = ""
    /\ sample_values /= <<>>

\* C28: for a column name that matches no alias and no name heuristic,
\* classify_field returns the class the stated order gives the first sample
\* (so "$19.99" gives cost_price, "50%" and a plain "50" give discount), and
\* the unchanged name when the order gives none.
C28_ContentOrder ==
    cpc = "done" /\ ContentDecides
        => classification =
              (IF StatedSampleClass(ToLower(sample_values[1])) /= ""
                 THEN StatedSampleClass(ToLower(sample_values[1]))
                 ELSE field_name)

\* C14: map_to_canonical_schema keeps the height, the number and order of
\* the columns and every column's values; only names may differ, and the
\* names stay pairwise distinct.
C14_ClassifyKeepsContent ==
    flpc = "classified"
        => /\ Height(classified) = Height(df)
           /\ Len(classified) = Len(df)
           /\ \A j \in 1..Len(df) : classified[j].values = df[j].values
           /\ \A j, k \in 1..Len(classified) :
                 classified[j].name = classified[k].name => j = k

C14_Witness ==
    /\ flpc = "classified"
    /\ Height(df) = 2
    /\ FrameNames(classified) /= FrameNames(df)
    /\ Cell(df, "units_of_mass", 1) = "N/A"
    /\ Cell(classified, "units_of_mass", 1) = "N/A"
    /\ Cell(classified, "discount", 2) = Cell(df, "sku_percent_off", 2)

\* C15: for every non-empty table of the Flattener the column set after
\* map_to_canonical_schema is {product_id, name, sku, cost_price, mrp,
\* discount, category, units_of_mass}.
C15_CanonicalSchema ==
    flpc = "classified" /\ df /= EmptyFrame
        => {classified[j].name : j \in 1..Len(classified)}
              = {"product_id", "name", "sku", "cost_price", "mrp", "discount",
                 "category", "units_of_mass"}

\* units_of_mass holds "kg", which the content fallback takes for a category
C15_Witness ==
    /\ flpc = "classified"
    /\ Height(df) = 1
    /\ Cell(df, "units_of_mass", 1) = "kg"
    /\ ClassifyField("units_of_mass", <<"kg">>) = {"category"}
    /\ Cell(classified, "units_of_mass", 1) = "kg"
    /\ Cell(classified, "discount", 1) = "40% off"

\* ----------------------------------------------------- claims: Normalizer

\* the values of the column called col, <<>> when there is none
ValuesOf(fr, col) == IF HasColumn(fr, col) THEN Column(fr, col).values ELSE <<>>

\* C17: a second normalize_dataframe on a normalized table completes without
\* error and leaves cost_price, mrp, discount, name and units_of_mass as
\* the first one left them.
C17_NormalizeIdempotent ==
    flpc = "renormalized"
        => /\ renormalized.status = "ok"
           /\ \A col \in {"cost_price", "mrp", "discount", "name",
                          "units_of_mass"} :
                 ValuesOf(renormalized.frame, col)
                    = ValuesOf(normalized.frame, col)

\* the text-coerced discount of row i of the classified table
CoercedDiscount(i) == DiscountOf(Cell(classified, "discount", i))

\* the claimed backfill value of prices cost and mrp (hundredths)
ClaimedBackfill(cost, mrp) ==
    IF mrp > 0 /\ cost < mrp
      THEN Num(RoundedQuotient((mrp - cost) * 100, mrp))
      ELSE Num(0)

\* C18: a row whose discount is null after text coercion and whose prices
\* are both present gets round(((mrp - cost_price) / mrp) * 100, 2) when
\* mrp > 0 and cost_price < mrp, and 0.0 otherwise.
C18_BackfillValue ==
    flpc = "normalized" /\ normalized.status = "ok"
        => \A i \in 1..Height(classified) :
              /\ CoercedDiscount(i).null
              /\ ~Cell(normalized.frame, "cost_price", i).null
              /\ ~Cell(normalized.frame, "mrp", i).null
              => Cell(normalized.frame, "discount", i)
                    = ClaimedBackfill(Cell(normalized.frame, "cost_price", i).c,
                                      Cell(normalized.frame, "mrp", i).c)

\* cost_price 234 and mrp 390 without a discount give 40.0
C18_Witness ==
    /\ flpc = "normalized"
    /\ normalized.status = "ok"
    /\ Height(classified) = 1
    /\ Cell(classified, "discount", 1) = ""
    /\ Cell(normalized.frame, "cost_price", 1) = Num(23400)
    /\ Cell(normalized.frame, "mrp", 1) = Num(39000)
    /\ Cell(normalized.frame, "discount", 1) = Num(4000)


\* C19: a row with a valid discount keeps it whatever its prices, a row
\* without discount and without one of the prices keeps a null discount,
\* and no column other than discount differs from the text-coerced table.
C19_BackfillFrame ==
    flpc = "normalized" /\ normalized.status = "ok"
        => /\ \A i \in 1..Height(classified) :
                 /\ ~CoercedDiscount(i).null
                       => Cell(normalized.frame, "discount", i)
                             = CoercedDiscount(i)
                 /\ /\ CoercedDiscount(i).null
                    /\ \/ Cell(normalized.frame, "cost_price", i).null
                       \/ Cell(normalized.frame, "mrp", i).null
                    => Cell(normalized.frame, "discount", i) = Null
           /\ \A j \in 1..Len(normalized.frame) :
                 normalized.frame[j].name /= "discount"
                    => normalized.frame[j] = BeforeBackfill(classified)[j]

C19_Witness ==
    /\ flpc = "normalized"
    /\ normalized.status = "ok"
    /\ Height(classified) = 1
    /\ Cell(classified, "discount", 1) = "40% off"
    /\ Cell(normalized.frame, "cost_price", 1) = Num(50000)
    /\ Cell(normalized.frame, "mrp", 1) = Num(30000)
    /\ Cell(normalized.frame, "discount", 1) = Num(4000)

IsNumberOrNull(cell) ==
    cell = Null \/ (~cell.null /\ "c" \in DOMAIN cell /\ cell.c \in Int)

Names(q) == [i \in 1..Len(q) |-> q[i].name]

\* C7: once the storage is initialised, the run reaches every selected source
\* exactly once and in list order, whatever earlier sources did, and the
\* success counter equals the number of process_* calls that returned Ok.
C7_EverySourceAttempted ==
    /\ rpc /= "boot" => /\ IsPrefix(attempted, Names(sources_to_process))
                        /\ successful_sources <= okReturns
    /\ (rpc = "exit" /\ attempted /= <<>>)
          => /\ mainResult = "Ok"
             /\ attempted = Names(sources_to_process)
             /\ successful_sources = okReturns

C7_Witness ==
    /\ rpc = "exit"
    /\ ~from_storage
    /\ attempted = Names(Sources)
    /\ successful_sources = 2
    /\ okReturns = 2
    /\ total_products = BatchedFrom

\* the running process_* call has completed stage s
Ran(s) == \E i \in 1..Len(stagesRun) : stagesRun[i] = s

\* C8: a process_json_source call that fetched zero records, and a
\* process_source_from_storage call that found zero records, returns Ok(0)
\* having written neither a raw nor a clean blob and having run no flatten,
\* classify or normalize stage.
C8_ZeroRecords ==
    (/\ rpc = "returned"
     /\ \/ Mode = "json" /\ products_count = 0
        \/ Mode = "storage" /\ raw_total = 0)
        => /\ ret = Ok(0)
           /\ puts = <<>>
           /\ ~Ran("flatten")
           /\ ~Ran("classify")
           /\ ~Ran("normalize")

C8_Witness ==
    /\ rpc = "returned"
    /\ Mode = "json"
    /\ products_count = 0
    /\ ret = Ok(0)
    /\ src = 2
    /\ successful_sources = 1

\* C27: in the JSON and from-storage modes the chunk size chosen for a raw
\* file of n items is n when n <= 500, 500 when n <= 5000, 2000 when
\* n <= 50000 and 5000 above; the file is flattened whole exactly when
\* n <= 500 and in batches otherwise.
C27_ChunkSizePolicy ==
    rpc = "source" /\ flatten_path /= "none" /\ Mode /= "html"
        => /\ batch_size = (IF raw_total <= 500 THEN raw_total
                            ELSE IF raw_total <= 5000 THEN 500
                            ELSE IF raw_total <= 50000 THEN 2000
                            ELSE 5000)
           /\ flatten_path = "whole" <=> raw_total <= 500

C27_Witness ==
    /\ rpc = "source"
    /\ Mode = "json"
    /\ raw_total = 5000
    /\ batch_size = 500
    /\ flatten_path = "batched"
    /\ stage = "classify"

\* the stages of process_json_source, in the order of its statements
JsonStages ==
    <<"config", "fetch", "store_raw", "info", "flatten", "classify",
      "normalize", "store_clean">>

\* the stages sequence q has completed are the first ones of JsonStages
InStageOrder(q) ==
    /\ Len(q) <= Len(JsonStages)
    /\ q = SubSeq(JsonStages, 1, Len(q))

Completed(name) == \E i \in 1..Len(stagesRun) : stagesRun[i] = name

\* C25: within one run of a JSON source the stages complete in the order
\* config, fetch, store raw, info, flatten, classify, normalize, store clean;
\* once the raw store has completed (so before flattening starts) the first
\* blob written is the raw one and holds exactly the fetched records; a clean
\* blob is written only as the second blob, after classify and normalize have
\* completed and with an Ok return; a run that returned Err wrote no clean blob
C25_StageOrder ==
    rpc \in {"source", "returned"} /\ Mode = "json"
        => /\ InStageOrder(stagesRun)
           /\ rpc = "source" => stage = JsonStages[Len(stagesRun) + 1]
           /\ Completed("store_raw") <=> puts /= <<>>
           /\ puts /= <<>>
                 => puts[1] = [kind |-> "raw", source |-> Current.name,
                               data |-> [origin |-> Current.name,
                                         len |-> products_count]]
           /\ \A i \in 1..Len(puts) :
                 puts[i].kind = "clean"
                     => /\ i = 2 /\ Len(puts) = 2
                        /\ Completed("classify") /\ Completed("normalize")
                        /\ stagesRun = JsonStages
                        /\ rpc = "returned" /\ ret.ok
           /\ rpc = "returned" /\ ~ret.ok
                 => \A i \in 1..Len(puts) : puts[i].kind /= "clean"

\* a JSON source run that fetched two records and stored raw then clean
C25_Witness ==
    /\ rpc = "returned"
    /\ Mode = "json"
    /\ ret = Ok(2)
    /\ stagesRun = JsonStages
    /\ Len(puts) = 2
    /\ puts[1].kind = "raw"
    /\ puts[2].kind = "clean"

\* -------------------------------------------------- claims: unit extraction

\* the unit patterns in the stated order: parenthetical weight/volume,
\* parenthetical count, dash-prefixed count, dash-prefixed weight/volume,
\* trailing weight/volume
StatedOrder == <<ParenWeight, ParenCount, DashCount, DashWeight, TrailingWeight>>

\* the name with the promotional tail cut off, which the patterns are tried on
Stripped(name) == ReplaceFirst(PromoRegex, name)

\* the patterns of StatedOrder that match the text
Matching(text) == {k \in 1..Len(StatedOrder) : Captures(StatedOrder[k], text).ok}

\* what the first matching pattern alone gives: its trimmed capture, and the
\* text without its span
ByPattern(k, text) ==
    CHOOSE out \in
      {[unit_found |-> Trim(SubSeq(text, m.cs, m.ce - 1)),
        cleaned_name |->
            SubSeq(text, 1, m.s - 1) \o SubSeq(text, m.e, Len(text))] :
       m \in {Captures(StatedOrder[k], text)}} : TRUE

\* C21: the unit patterns are tried in the stated order; the first one that
\* matches alone gives units_of_mass (its trimmed capture) and its span is cut
\* from the name, later patterns are not applied; when none matches the unit
\* is "N/A"; "Kfresh Potatoes (Aalu) - 3 Kg" gives the name "kfresh potatoes"
\* and the unit "3 Kg".
C21_FirstPatternDecides ==
    upc = "done"
        => /\ \A text \in {Stripped(name_in)} :
                 \A ks \in {Matching(text)} :
                    IF ks = {}
                      THEN extracted =
                              Tidy([unit_found |-> "N/A", cleaned_name |-> text])
                      ELSE \E k \in ks :
                              /\ \A j \in ks : k <= j
                              /\ extracted = Tidy(ByPattern(k, text))
                              /\ extracted.unit_found /= "N/A"
           /\ name_in = "Kfresh Potatoes (Aalu) - 3 Kg"
                 => extracted = [unit_found |-> "3 Kg",
                                 cleaned_name |-> "kfresh potatoes"]

\* a name three patterns match: the parenthetical count wins over the
\* dash-prefixed and the trailing weight, which stays in the name
C21_Witness ==
    /\ upc = "done"
    /\ name_in = "Eggs (pack of 6) - 3 Kg"
    /\ Matching(name_in) = {2, 4, 5}
    /\ extracted = [unit_found |-> "pack of 6", cleaned_name |-> "eggs - 3 kg"]

\* C29: after normalize_dataframe, a row whose name holds no unit pattern
\* still carries the units_of_mass value the Flattener resolved from the
\* record, and a row's units_of_mass is "N/A" only when the Flattener's value
\* was "N/A" and the name holds no unit pattern.
C29_FlattenerUnitSurvives ==
    flpc = "normalized" /\ normalized.status = "ok"
        => \A i \in 1..Height(df) :
              /\ Matching(Stripped(Cell(df, "name", i))) = {}
                    => Cell(normalized.frame, "units_of_mass", i)
                          = Cell(df, "units_of_mass", i)
              /\ Cell(normalized.frame, "units_of_mass", i) = "N/A"
                    => /\ Cell(df, "units_of_mass", i) = "N/A"
                       /\ Matching(Stripped(Cell(df, "name", i))) = {}

\* ------------------------------------------------------ claims: HtmlFetcher

\* the products of the pages of log, in page order
RECURSIVE ProductsOf(_)
ProductsOf(log) ==
    IF log = <<>> THEN <<>> ELSE Head(log).products \o ProductsOf(Tail(log))

\* C30: fetch_page_with_retry makes at most 3 attempts for a page, returns
\* at the first successful one and otherwise the error of the last one, with
\* a backoff after every failed attempt but the last; scrape_category
\* requests at most max_pages_per_category pages, stops at the first page
\* that is empty or whose retries are spent, and returns Ok with the
\* products of the pages before it; fetch_all_categories returns Ok.
C30_BoundedScrape ==
    hpc /= "idle"
        => /\ fetches <= 3 /\ attempts <= 3
           /\ hpc = "attempt" => fetches = attempts /\ backoffs = attempts
           /\ hpc = "backoff" => fetches = attempts /\ backoffs = attempts - 1
           /\ page_fetch = "Ok" => fetches = attempts + 1 /\ backoffs = attempts
           /\ page_fetch = "Err"
                 => fetches = 3 /\ attempts = 3 /\ backoffs = 2 /\ error_of = 3
           /\ Len(page_log) <= max_pages_per_category
           /\ \A i \in 1..(Len(page_log) - 1) : page_log[i].products /= <<>>
           /\ scraped = ProductsOf(page_log)
           /\ scrape_result.returned
                 => /\ scrape_result = ScrapedOk(ProductsOf(page_log))
                    /\ \/ Len(page_log) = max_pages_per_category
                       \/ page_log[Len(page_log)].products = <<>>
           /\ hpc = "returned" => html_result.ok

\* a category whose first page gave products and whose second page failed
\* three times
C30_Witness ==
    /\ hpc = "scraped"
    /\ Len(page_log) = 2
    /\ page_log[1].products /= <<>>
    /\ page_log[2].fetch = "Err"
    /\ fetches = 3
    /\ backoffs = 2
    /\ error_of = 3
    /\ scrape_result = ScrapedOk(page_log[1].products)

====
